---- MODULE Spec2Model ----
(***************************************************************************)
(* Chapter playback sequencer of the Bible study application (App.tsx,     *)
(* src/unnamed/part_000): handlePlayChapter / streamAndPlay,                *)
(* cleanupChapterAudio, handlePlaybackRateChange and the part of            *)
(* handlePassageSelect that touches chapter audio.                          *)
(*                                                                         *)
(* Time is in milliseconds.  audioContext.currentTime and the timer clock   *)
(* are one clock, `now`.  One JavaScript task (an event handler, a timer    *)
(* callback, the continuation of a settled promise together with the        *)
(* microtasks it triggers) is one action.  React state set several times    *)
(* within one task commits its last value; prevAudioState remembers the     *)
(* value chapterAudioState had before the most recent change.               *)
(***************************************************************************)
EXTENDS Integers, Sequences, FiniteSets, TLC

VARIABLES
    st,            \* the component's state and refs, see Init
    passage,       \* useState passage: the lines received so far
    streamTarget,  \* chapter being streamed by handlePassageSelect (0: none)
    now,           \* audioContext.currentTime / wall clock, ms
    clicks,        \* chapter selections and rate clicks made so far
    vs,            \* the BibleText component's playback state and refs
    svc,           \* geminiService: sessionStorage and the calls in flight
    tracker,       \* trackerUtils: localStorage and the tracker modal
    sel            \* App: what handlePassageSelect displays and has in flight

vars == <<st, passage, streamTarget, now, clicks, vs, svc, tracker, sel>>

----------------------------------------------------------------------------
\* Bounds of the model
MaxVerses == 2      \* verses of the longest chapter
MaxSessions == 2    \* handlePlayChapter invocations that pass the guards
MaxClicks == 2      \* chapter selections and rate clicks of one run
MaxTime == 3000     \* the clock stops advancing here
SeqMaxTime == 5000  \* the same, for a session left alone

\* Program constants
prefetchCount == 5          \* part_000:229
FinalCleanupMargin == 500   \* part_000:294
RestartDelay == 100         \* part_000:314

\* the clock is observed at its deadlines and every ClockStep between them
ClockStep == FinalCleanupMargin

PLAYBACK_RATES == {10, 13, 16, 20}   \* AudioControls.tsx:5, in tenths
RateChoices == {10, 20}              \* the rates the modelled user picks
Durations == {1000, 1500}            \* clip durations the decoder may return, ms
ClipDuration(v) == 1000              \* the duration of every clip when they are all alike

Max(a, b) == IF a >= b THEN a ELSE b
Min(a, b) == IF a <= b THEN a ELSE b

----------------------------------------------------------------------------
\* Passage text.  A line is "n. content" (kind "verse"), a non-blank line
\* that does not match (kind "junk"), or a blank line (kind "blank").
VerseLine(n) == [kind |-> "verse", number |-> n]
JunkLine == [kind |-> "junk", number |-> 0]

ChapterText(c) ==
    IF c = 1 THEN <<VerseLine(1)>>
    ELSE <<VerseLine(1), JunkLine>> \o [j \in 1..(c - 1) |-> VerseLine(j + 1)]

Chapters == 1..MaxVerses

IsVerseLine(l) == l.kind = "verse"

\* ParseVerses, but the list ends where the numbering breaks
ParseVersesNumbered(p) ==
    LET m == SelectSeq(p, IsVerseLine)
        n == Cardinality({k \in 1..Len(m) : \A i \in 1..k : m[i].number = i})
    IN [j \in 1..n |-> m[j].number]

\* part_000:224-227: split, drop blank lines, match /^(\d+)\.\s*(.*)/, drop nulls
ParseVerses(p) ==
    LET m == SelectSeq(p, IsVerseLine) IN [j \in 1..Len(m) |-> m[j].number]

----------------------------------------------------------------------------
\* A session: one invocation of handlePlayChapter that got past line 206.
NoSession ==
    [ pc |-> "unused",       \* unused | resuming | awaiting | done | failed | gone
      rate |-> 0,            \* playbackRate captured by the closure
      text |-> <<>>,         \* passage captured by the closure
      verses |-> <<>>,       \* verses parsed at line 224
      hasCtl |-> FALSE,      \* controller created (line 217)
      cancelled |-> FALSE,   \* controller.isCancelled
      i |-> 0,               \* loop index of line 251, 1-based
      nextStartTime |-> 0,
      audioPromises |-> <<>>,\* verse index of each pushed promise
      fetch |-> <<>>,        \* per verse: none|fetching|decoding|ok|null
      dur |-> <<>>,          \* per verse: buffer.duration in ms once decoded
      starts |-> <<>> ]      \* source.start calls, in call order

Sessions == 1..MaxSessions

\* part_000:34-40: the state and refs of App right after construction
InitialState ==
    [ audioCtx |-> "none",            \* audioContextRef: none | suspended | running
      chapterAudioState |-> "idle",
      prevAudioState |-> "idle",      \* chapterAudioState before its last change
      playbackRate |-> 10,            \* in tenths (10 = 1.0x)
      currentlyPlayingVerse |-> 0,    \* 0: null
      playbackController |-> 0,       \* session id of the controller, 0: null
      sess |-> [s \in Sessions |-> NoSession],
      nSessions |-> 0,
      activeAudioSources |-> {},      \* set of <<session, k>>: k-th start of session
      audible |-> {},                 \* sources the engine plays or will play
      hlTimers |-> {},                \* pending timers of line 267
      finalTimers |-> {},             \* pending timers of line 290
      restartTimers |-> {} ]          \* pending timers of line 314

\* A session whose function has returned, that is not the live controller
\* and has no promise, timer or source left can act no more: its record is
\* forgotten (nothing refers to it any longer).
Finished(g, s) ==
    /\ g.sess[s].pc \in {"done", "failed"}
    /\ g.playbackController # s
    /\ \A v \in DOMAIN g.sess[s].fetch : g.sess[s].fetch[v] \notin {"fetching", "decoding"}
    /\ \A tm \in g.hlTimers \cup g.finalTimers : tm.s # s
    /\ \A src \in g.activeAudioSources \cup g.audible : src[1] # s

\* Of a cancelled session only what it still waits for matters: nothing
\* reads its timeline, its rate or its decoded buffers again.
Cancelled(sr) ==
    [sr EXCEPT !.rate = 0, !.text = <<>>, !.nextStartTime = 0, !.starts = <<>>,
               !.dur = [v \in DOMAIN sr.dur |-> 0],
               !.fetch = [v \in DOMAIN sr.fetch |->
                            IF sr.fetch[v] = "ok" THEN "null" ELSE sr.fetch[v]]]

Forget(g) ==
    [g EXCEPT !.sess = [s \in DOMAIN g.sess |->
        IF Finished(g, s)
        THEN [NoSession EXCEPT !.pc = IF g.sess[s].pc = "failed" THEN "failed" ELSE "gone"]
        ELSE IF g.sess[s].cancelled THEN Cancelled(g.sess[s])
        ELSE g.sess[s]]]

----------------------------------------------------------------------------
\* BibleText.tsx: verse playback with alignment.  A call is one invocation
\* of handlePlayVerse that got past line 68.
MaxVerseCalls == 2

VerseCalls == 1..MaxVerseCalls

\* A segment of an alignment: BibleText.tsx:120 reads startTime and endTime
Seg(a, b) == [startTime |-> a, endTime |-> b]

\* the alignments getVerseAnalysis may return: contiguous, with a gap,
\* overlapping, out of order, one inverted segment, empty
Analyses ==
    << <<Seg(0, 1000), Seg(1000, 2000)>>,
       <<Seg(0, 500), Seg(1500, 2000)>>,
       <<Seg(0, 1500), Seg(1000, 2000)>>,
       <<Seg(1000, 2000), Seg(0, 1000)>>,
       <<Seg(1000, 0)>>,
       <<>> >>

AnalysisIds == DOMAIN Analyses

\* elapsed playback times at which an animation frame may run, ms
ElapsedChoices == {0, 499, 500, 1000, 1250, 1500, 1999, 2000}

NoCall ==
    [pc |-> "unused",      \* resuming, fetching, decoding, started, over
     source |-> "none",    \* playing, stopped (ended event pending), ended
     analysis |-> "none",  \* pending, ok, failed
     segs |-> 0,           \* the alignment the highlight loop closed over
     frame |-> FALSE]      \* a frame of this call's loop is requested

InitialVerseState ==
    [playingState |-> "idle",       \* BibleText.tsx:31
     playingVerseNumber |-> 0,      \* :32, 0 is null
     verseAnalysis |-> 0,           \* :33, 0 is []
     highlightedIndex |-> -1,       \* :34
     audioCtx |-> "none",           \* :36
     audioSourceRef |-> 0,          \* :37, the call whose source it holds
     animationFrameRef |-> 0,       \* :38, the call whose frame it holds
     calls |-> [c \in VerseCalls |-> NoCall],
     nCalls |-> 0,
     sounding |-> {}]               \* sources the audio engine is playing

\* geminiService.ts: the passage cache in sessionStorage and the underlying
\* text-generation calls.  A fetch is one call of streamPassageText or of
\* getOriginalPassageText.
MaxFetches == 3

FetchIds == 1..MaxFetches

\* the chapters that are fetched: two chapters of one book
CachedChapters == {1, 2}

\* geminiService.ts:44 and :82: the two cache keys of a chapter
CacheKeys == {"passage", "original-passage"} \X CachedChapters

NoFetch ==
    [pc |-> "unused",   \* calling, streaming, hit, done, failed
     key |-> <<"passage", 0>>,
     acc |-> "",        \* fullText while streaming: "", "ws" (white space only), "text"
     err |-> "",        \* why it failed: "config" (no API key) or "api"
     usedKey |-> "null"]  \* while calling: the key of the client that issued the request

InitialService ==
    [storage |-> [k \in CacheKeys |-> "null"],   \* sessionStorage.getItem(k)
     calls |-> [k \in CacheKeys |-> 0],          \* underlying calls issued for k
     completed |-> [k \in CacheKeys |-> "none"], \* outcome of the last completed fetch of k
     fetches |-> [f \in FetchIds |-> NoFetch],
     nFetches |-> 0,
     envKey |-> "env",                           \* process.env.API_KEY
     sessionKey |-> "null",                      \* sessionStorage.getItem('GEMINI_API_KEY')
     ai |-> "null",                              \* the key the client `ai` was made with
     currentApiKey |-> "null"]

\* trackerUtils.ts: the reading status in localStorage.  A status in memory
\* is the sequence of its book entries in key order, each with the set of
\* its chapter keys; the stored string lists the chapter keys of a book in
\* ascending order, as JSON.stringify enumerates integer keys.
MaxTrackerChapters == 2

TrackerChapters == 1..MaxTrackerChapters

\* two books of BIBLE_STRUCTURE
TrackerBooks == {"Genesis", "Exodus"}

\* localStorage.getItem of a key that was never set; an item that was set
\* has set = TRUE and the stored string in text
NoItem == [set |-> FALSE, text |-> <<>>]

\* what the tracker did last: <<operation, book, chapter>>
NoOp == <<"none", "", 0>>

InitialTracker ==
    [storage |-> NoItem,        \* localStorage[TRACKER_STORAGE_KEY]
     readingStatus |-> <<>>,    \* BibleTrackerModal: useState readingStatus
     last |-> NoOp,             \* the last operation on the storage
     before |-> NoItem,         \* the storage before the last operation
     twice |-> FALSE]           \* the last two operations toggled the same chapter

\* part_000:17-30: the state handlePassageSelect writes
\* the invocations of handlePassageSelect that may be in flight together
SelectCalls == {1, 2}

\* the gateway operations of one invocation: the original passage and the
\* stream of the chapter, and the two prefetches of the adjacent chapter
SelectRoles == {"original", "stream", "pre-stream", "pre-original"}

SelectOps == SelectCalls \X SelectRoles

NoSelect ==
    [pc |-> "unused",    \* streaming, done, failed
     chapter |-> 0,
     fullText |-> ""]    \* part_000:161: the kind of text received so far

\* Word lookups (part_000:335-370)
MaxLookups == 3     \* hover timers started in one run

Lookups == 1..MaxLookups

NoLookup ==
    [pc |-> "unused",   \* timer (the 800 ms of part_000:346), pending, over
     word |-> "",       \* cleanedWord
     verse |-> 0]

\* part_000:21: tooltipData === null
NoTooltip ==
    [set |-> FALSE,
     word |-> "",
     verseNumber |-> 0,
     definition |-> 0,     \* 0 is null, else the lookup that delivered it
     isLoading |-> FALSE,
     error |-> "null"]     \* the word the inline error names

InitialTip ==
    [data |-> NoTooltip,             \* part_000:21
     isScrolling |-> FALSE,          \* :22
     hoverTimeoutRef |-> 0,          \* :44, the lookup whose timer it holds
     hideTimeoutRef |-> FALSE,       \* :45, a hide timer is pending
     inside |-> FALSE,               \* the pointer is over the tooltip
     lookups |-> [l \in Lookups |-> NoLookup],
     nLookups |-> 0,
     settled |-> "none"]             \* what the last step did with a result: applied, ignored

InitialSelection ==
    [isLoadingPassage |-> FALSE,
     originalPassage |-> "null",
     selectedChapter |-> 0,
     calls |-> [i \in SelectCalls |-> NoSelect],
     nCalls |-> 0,
     apiKeyNeeded |-> FALSE,    \* part_000:48-55: set by the mount effect
     apiError |-> "null",
     apiKeyInput |-> "",        \* PassageSelector.tsx:18: what is typed in the key form
     submitted |-> "none",      \* the last input the key form submitted
     tip |-> InitialTip]

\* setChapterAudioState(v)
setChapterAudioState(g, v) ==
    [g EXCEPT !.prevAudioState = IF v # g.chapterAudioState THEN g.chapterAudioState ELSE @,
              !.chapterAudioState = v]

\* cleanupChapterAudio, but the set is cleared without stopping the sources
cleanupWithoutStop(g) ==
    LET c == g.playbackController
        g1 == IF c # 0
              THEN [g EXCEPT !.sess[c].cancelled = TRUE, !.playbackController = 0]
              ELSE g
        g2 == [g1 EXCEPT !.activeAudioSources = {}]
        g3 == setChapterAudioState(g2, "idle")
    IN [g3 EXCEPT !.currentlyPlayingVerse = 0]

\* part_000:94-106
cleanupChapterAudio(g) ==
    LET c == g.playbackController
        g1 == IF c # 0
              THEN [g EXCEPT !.sess[c].cancelled = TRUE, !.playbackController = 0]
              ELSE g
        g2 == [g1 EXCEPT !.audible = @ \ g1.activeAudioSources,
                         !.activeAudioSources = {}]
        g3 == setChapterAudioState(g2, "idle")
    IN [g3 EXCEPT !.currentlyPlayingVerse = 0]

\* part_000:232-243, up to the first await: the fetch is in flight
fetchAndDecode(sr, k) ==
    [sr EXCEPT !.fetch[k] = "fetching", !.audioPromises = Append(@, k)]

Settled(sr, p) == sr.fetch[sr.audioPromises[p]] \in {"ok", "null"}

\* part_000:298-304: streamAndPlay rejected
streamAndPlayRejected(g, s) ==
    LET g1 == [g EXCEPT !.sess[s].pc = "failed"]
    IN IF ~g1.sess[s].cancelled
       THEN cleanupChapterAudio(setChapterAudioState(g1, "error"))
       ELSE g1

\* afterLoop, but the timer is set without the margin
afterLoopNoMargin(g, s, t) ==
    LET sr == g.sess[s]
        g1 == [g EXCEPT !.sess[s].pc = "done"]
    IN IF ~sr.cancelled
       THEN [g1 EXCEPT !.finalTimers = @ \cup
                {[s |-> s, due |-> t + Max(0, sr.nextStartTime - t)]}]
       ELSE g1

\* part_000:288-295: after the loop
afterLoop(g, s, t) ==
    LET sr == g.sess[s]
        g1 == [g EXCEPT !.sess[s].pc = "done"]
    IN IF ~sr.cancelled
       THEN [g1 EXCEPT !.finalTimers = @ \cup
                {[s |-> s, due |-> t + Max(0, sr.nextStartTime - t) + FinalCleanupMargin]}]
       ELSE g1

\* scheduleVerse, but the timeline is not advanced past the clip
scheduleVerseNoAdvance(g, s, v, t) ==
    LET sr == g.sess[s]
        start == Max(sr.nextStartTime, t)
        k == Len(sr.starts) + 1
        len == (sr.dur[v] * 10) \div sr.rate
    IN [g EXCEPT !.hlTimers = @ \cup {[s |-> s, verse |-> sr.verses[v],
                                       due |-> t + Max(0, start - t)]},
                 !.activeAudioSources = @ \cup {<<s, k>>},
                 !.audible = @ \cup {<<s, k>>},
                 !.sess[s].starts = Append(@, [verse |-> v, start |-> start,
                                               end |-> start + len, clock |-> t])]

\* scheduleVerse, but the start is not clamped to the clock
scheduleVerseNoClamp(g, s, v, t) ==
    LET sr == g.sess[s]
        start == sr.nextStartTime
        k == Len(sr.starts) + 1
        len == (sr.dur[v] * 10) \div sr.rate
    IN [g EXCEPT !.hlTimers = @ \cup {[s |-> s, verse |-> sr.verses[v],
                                       due |-> t + Max(0, start - t)]},
                 !.activeAudioSources = @ \cup {<<s, k>>},
                 !.audible = @ \cup {<<s, k>>},
                 !.sess[s].starts = Append(@, [verse |-> v, start |-> start,
                                               end |-> start + len, clock |-> t]),
                 !.sess[s].nextStartTime = start + len]

\* part_000:262-282: schedule verse v of session s at clock t
scheduleVerse(g, s, v, t) ==
    LET sr == g.sess[s]
        start == Max(sr.nextStartTime, t)
        k == Len(sr.starts) + 1
        len == (sr.dur[v] * 10) \div sr.rate
    IN [g EXCEPT !.hlTimers = @ \cup {[s |-> s, verse |-> sr.verses[v],
                                       due |-> t + Max(0, start - t)]},
                 !.activeAudioSources = @ \cup {<<s, k>>},
                 !.audible = @ \cup {<<s, k>>},
                 !.sess[s].starts = Append(@, [verse |-> v, start |-> start,
                                               end |-> start + len, clock |-> t]),
                 !.sess[s].nextStartTime = start + len]

RECURSIVE afterAwait(_, _, _, _), loopTop(_, _, _, _)

\* afterAwait, but a verse without audio ends the loop
afterAwaitAbortOnFailure(g, s, t, fault) ==
    LET sr == g.sess[s]
        v == sr.audioPromises[sr.i]
    IN IF sr.cancelled THEN afterLoop(g, s, t)
       ELSE IF sr.fetch[v] = "ok"
       THEN loopTop([scheduleVerse(g, s, v, t) EXCEPT !.sess[s].i = @ + 1], s, t, fault)
       ELSE afterLoop(g, s, t)

\* part_000:260-285: continuation of `await audioPromises[i]`; `fault` makes
\* the audio engine throw while the source is created (line 273)
afterAwait(g, s, t, fault) ==
    LET sr == g.sess[s]
        v == sr.audioPromises[sr.i]
    IN IF sr.cancelled THEN afterLoop(g, s, t)
       ELSE IF sr.fetch[v] = "ok"
       THEN IF fault
            THEN streamAndPlayRejected(
                    [g EXCEPT !.hlTimers = @ \cup
                        {[s |-> s, verse |-> sr.verses[v],
                          due |-> t + Max(0, Max(sr.nextStartTime, t) - t)]}], s)
            ELSE loopTop([scheduleVerse(g, s, v, t) EXCEPT !.sess[s].i = @ + 1], s, t, fault)
       ELSE loopTop([g EXCEPT !.sess[s].i = @ + 1], s, t, fault)

\* part_000:251-259: loop condition, cancel check, sliding prefetch, await
loopTop(g, s, t, fault) ==
    LET sr == g.sess[s]
        n == Len(sr.verses)
        nextVerseIndex == sr.i + prefetchCount
    IN IF sr.i > n \/ sr.cancelled THEN afterLoop(g, s, t)
       ELSE LET g1 == IF nextVerseIndex <= n
                      THEN [g EXCEPT !.sess[s] = fetchAndDecode(@, nextVerseIndex)]
                      ELSE g
            IN IF Settled(g1.sess[s], sr.i)
               THEN afterAwait(g1, s, t, fault)
               ELSE [g1 EXCEPT !.sess[s].pc = "awaiting"]

RECURSIVE prefetchWhole(_, _, _)
\* the first loop, but it issues the fetch of every verse of the chapter
prefetchWhole(sr, k, n) ==
    IF k > n THEN sr
    ELSE prefetchWhole(fetchAndDecode(sr, k), k + 1, n)

RECURSIVE prefetchFirst(_, _, _)
\* part_000:245-247
prefetchFirst(sr, k, n) ==
    IF k > Min(prefetchCount, n) THEN sr
    ELSE prefetchFirst(fetchAndDecode(sr, k), k + 1, n)

\* part_000:217-249 and the first pass of the loop: the controller is
\* created and streamAndPlay runs to its first await
startSession(g, s, t) ==
    LET sr == g.sess[s]
        verses == ParseVerses(sr.text)
        n == Len(verses)
        sr1 == [sr EXCEPT !.hasCtl = TRUE, !.cancelled = FALSE,
                          !.verses = verses, !.nextStartTime = t, !.i = 1,
                          !.fetch = [k \in 1..n |-> "none"],
                          !.dur = [k \in 1..n |-> 0]]
        sr2 == prefetchFirst(sr1, 1, n)
        g1 == [g EXCEPT !.sess[s] = sr2, !.playbackController = s]
    IN loopTop(setChapterAudioState(g1, "playing"), s, t, FALSE)

\* handlePlayChapter, but a call during a session restarts instead of stopping
handlePlayChapterRestarts(g, capState, capRate, capPassage, ctxOutcome, t) ==
    LET g0 == cleanupChapterAudio(g)
    IN IF capPassage = <<>> \/ g0.nSessions >= Cardinality(DOMAIN g0.sess) THEN g0
       ELSE LET s == g0.nSessions + 1
                g1 == setChapterAudioState(
                        [g0 EXCEPT !.nSessions = s,
                                   !.sess[s] = [NoSession EXCEPT !.rate = capRate,
                                                                 !.text = capPassage]],
                        "loading")
            IN startSession([g1 EXCEPT !.audioCtx = "running"], s, t)

\* part_000:200-218: handlePlayChapter as created by a render that saw
\* (capState, capRate, capPassage); ctxOutcome is what `new AudioContext`
\* gives when no context exists yet
handlePlayChapter(g, capState, capRate, capPassage, ctxOutcome, t) ==
    LET c == g.playbackController
    IN IF c # 0 /\ ~g.sess[c].cancelled THEN cleanupChapterAudio(g)
       ELSE IF capState = "loading" \/ capPassage = <<>> THEN g
       ELSE LET s == g.nSessions + 1
                g1 == setChapterAudioState(
                        [g EXCEPT !.nSessions = s,
                                  !.sess[s] = [NoSession EXCEPT !.rate = capRate,
                                                                !.text = capPassage]],
                        "loading")
                ctx == IF g.audioCtx = "none" THEN ctxOutcome ELSE g.audioCtx
            IN IF ctx = "throw"
               THEN [g1 EXCEPT !.sess[s].pc = "failed"]
               ELSE IF ctx = "suspended"
               THEN [g1 EXCEPT !.audioCtx = "suspended", !.sess[s].pc = "resuming"]
               ELSE startSession([g1 EXCEPT !.audioCtx = "running"], s, t)

\* handlePlayChapter needs a free session slot when it gets past its guards
NeedsSlot(g, capState, capPassage) ==
    /\ ~(g.playbackController # 0 /\ ~g.sess[g.playbackController].cancelled)
    /\ ~(capState = "loading" \/ capPassage = <<>>)

\* part_000:307-316
handlePlaybackRateChange(g, rate, capPassage, t) ==
    LET wasPlaying == g.chapterAudioState \in {"playing", "loading"}
        g1 == IF wasPlaying THEN cleanupChapterAudio(g) ELSE g
        g2 == [g1 EXCEPT !.playbackRate = rate]
    IN IF wasPlaying
       THEN [g2 EXCEPT !.restartTimers = @ \cup
                {[due |-> t + RestartDelay, capState |-> g.chapterAudioState,
                  capRate |-> g.playbackRate, capPassage |-> capPassage]}]
       ELSE g2

----------------------------------------------------------------------------
Init ==
    /\ st = InitialState
    /\ vs = InitialVerseState
    /\ svc = InitialService
    /\ tracker = InitialTracker
    /\ sel = InitialSelection
    /\ passage = <<>>
    /\ streamTarget = 0
    /\ now = 0
    /\ clicks = 0

\* part_000:135-146: handlePassageSelect, synchronous part
Navigate(c) ==
    /\ clicks < MaxClicks
    /\ clicks' = clicks + 1
    /\ st' = Forget(cleanupChapterAudio(st))
    /\ passage' = <<>>
    /\ streamTarget' = c
    /\ UNCHANGED <<now, vs, svc, tracker, sel>>

\* part_000:162-165: the stream delivers the chapter in one chunk
StreamChunk ==
    /\ streamTarget # 0
    /\ passage = <<>>
    /\ passage' = ChapterText(streamTarget)
    /\ UNCHANGED <<st, streamTarget, now, clicks, vs, svc, tracker, sel>>

\* click on the play/pause button (AudioControls.tsx:17-21: rendered only
\* with a passage, disabled while loading)
PlayClick(ctxOutcome) ==
    /\ passage # <<>>
    /\ st.chapterAudioState # "loading"
    /\ NeedsSlot(st, st.chapterAudioState, passage) => st.nSessions < MaxSessions
    /\ st.audioCtx # "none" => ctxOutcome = "running"
    /\ st' = Forget(handlePlayChapter(st, st.chapterAudioState, st.playbackRate, passage,
                                      ctxOutcome, now))
    /\ UNCHANGED <<passage, streamTarget, now, clicks, vs, svc, tracker, sel>>

\* click on a rate button (AudioControls.tsx:35-46)
RateClick(rate) ==
    /\ passage # <<>>
    /\ rate # st.playbackRate
    /\ clicks < MaxClicks
    /\ clicks' = clicks + 1
    /\ st.chapterAudioState \in {"playing", "loading"} => st.nSessions < MaxSessions
    /\ st' = Forget(handlePlaybackRateChange(st, rate, passage, now))
    /\ UNCHANGED <<passage, streamTarget, now, vs, svc, tracker, sel>>

\* part_000:314: the restart timer fires and calls the handlePlayChapter of
\* the render in which the rate button was clicked
RestartTimerFire(tm, ctxOutcome) ==
    /\ tm \in st.restartTimers
    /\ now >= tm.due
    /\ NeedsSlot(st, tm.capState, tm.capPassage) => st.nSessions < MaxSessions
    /\ st.audioCtx # "none" => ctxOutcome = "running"
    /\ st' = Forget(handlePlayChapter([st EXCEPT !.restartTimers = @ \ {tm}],
                                      tm.capState, tm.capRate, tm.capPassage, ctxOutcome, now))
    /\ UNCHANGED <<passage, streamTarget, now, clicks, vs, svc, tracker, sel>>

\* part_000:213-215: resume() of the oldest waiting invocation resolves
ResumeResolve(s) ==
    /\ st.sess[s].pc = "resuming"
    /\ \A r \in Sessions : r < s => st.sess[r].pc # "resuming"
    /\ st' = Forget(startSession([st EXCEPT !.audioCtx = "running"], s, now))
    /\ UNCHANGED <<passage, streamTarget, now, clicks, vs, svc, tracker, sel>>

\* part_000:213-215: resume() rejects; handlePlayChapter has no handler for it
ResumeReject(s) ==
    /\ st.sess[s].pc = "resuming"
    /\ st.audioCtx = "suspended"
    /\ \A r \in Sessions : r < s => st.sess[r].pc # "resuming"
    /\ st' = Forget([st EXCEPT !.sess[s].pc = "failed"])
    /\ UNCHANGED <<passage, streamTarget, now, clicks, vs, svc, tracker, sel>>

\* promiseSettled, but a clip is scheduled as soon as it arrives
promiseSettledInArrivalOrder(g, s, v, t, fault) ==
    LET sr == g.sess[s]
    IN IF sr.pc = "awaiting" /\ sr.fetch[v] = "ok"
       THEN scheduleVerse(g, s, v, t)
       ELSE IF sr.pc = "awaiting" /\ sr.audioPromises[sr.i] = v
       THEN afterAwait(g, s, t, fault)
       ELSE g

\* a promise of audioPromises settles: the loop continues if it awaits it
promiseSettled(g, s, v, t, fault) ==
    LET sr == g.sess[s]
    IN IF sr.pc = "awaiting" /\ sr.audioPromises[sr.i] = v
       THEN afterAwait(g, s, t, fault)
       ELSE g

\* fetchSettled, but the audio is decoded whether the session is cancelled
\* or not
fetchSettledIgnoresCancel(g, s, v, ok, t) ==
    IF ok
    THEN [g EXCEPT !.sess[s].fetch[v] = "decoding"]
    ELSE promiseSettled([g EXCEPT !.sess[s].fetch[v] = "null"], s, v, t, FALSE)

\* part_000:234-235, 239-241: getVersePronunciation settles
fetchSettled(g, s, v, ok, t) ==
    IF ok /\ ~g.sess[s].cancelled
    THEN [g EXCEPT !.sess[s].fetch[v] = "decoding"]
    ELSE promiseSettled([g EXCEPT !.sess[s].fetch[v] = "null"], s, v, t, FALSE)

\* part_000:236-238, 239-241: decodeAudioData settles (d = 0: it failed)
decodeSettled(g, s, v, d, t, fault) ==
    IF d # 0 /\ ~g.sess[s].cancelled
    THEN promiseSettled([g EXCEPT !.sess[s].fetch[v] = "ok", !.sess[s].dur[v] = d],
                        s, v, t, fault)
    ELSE promiseSettled([g EXCEPT !.sess[s].fetch[v] = "null"], s, v, t, FALSE)

FetchSettle(s, v, ok) ==
    /\ st.sess[s].hasCtl
    /\ v \in DOMAIN st.sess[s].fetch
    /\ st.sess[s].fetch[v] = "fetching"
    /\ st' = Forget(fetchSettled(st, s, v, ok, now))
    /\ UNCHANGED <<passage, streamTarget, now, clicks, vs, svc, tracker, sel>>

DecodeSettle(s, v, d, fault) ==
    /\ st.sess[s].hasCtl
    /\ v \in DOMAIN st.sess[s].fetch
    /\ st.sess[s].fetch[v] = "decoding"
    /\ fault => d # 0 /\ ~st.sess[s].cancelled
    /\ st' = Forget(decodeSettled(st, s, v, d, now, fault))
    /\ UNCHANGED <<passage, streamTarget, now, clicks, vs, svc, tracker, sel>>

\* the audio of a verse arrives and is decoded within one clock reading
AudioSettle(s, v, fault) ==
    /\ st.sess[s].hasCtl
    /\ v \in DOMAIN st.sess[s].fetch
    /\ st.sess[s].fetch[v] = "fetching"
    /\ fault => ~st.sess[s].cancelled
    /\ st' = Forget(decodeSettled(fetchSettled(st, s, v, TRUE, now), s, v,
                                  ClipDuration(v), now, fault))
    /\ UNCHANGED <<passage, streamTarget, now, clicks, vs, svc, tracker, sel>>

SourceEnd(src) == st.sess[src[1]].starts[src[2]].end

\* part_000:279: source.onended of a source that played to its end
SourceEnded(src) ==
    /\ src \in st.activeAudioSources
    /\ now >= SourceEnd(src)
    /\ st' = Forget([st EXCEPT !.activeAudioSources = @ \ {src}, !.audible = @ \ {src}])
    /\ UNCHANGED <<passage, streamTarget, now, clicks, vs, svc, tracker, sel>>

\* part_000:267-271
highlightTimer(g, tm) ==
    LET g1 == [g EXCEPT !.hlTimers = @ \ {tm}]
    IN IF g.sess[tm.s].cancelled THEN g1
       ELSE [g1 EXCEPT !.currentlyPlayingVerse = tm.verse]

HighlightTimerFire(tm) ==
    /\ tm \in st.hlTimers
    /\ now >= tm.due
    /\ st' = Forget(highlightTimer(st, tm))
    /\ UNCHANGED <<passage, streamTarget, now, clicks, vs, svc, tracker, sel>>

\* part_000:290-294
finalCleanupTimer(g, tm) ==
    LET g1 == [g EXCEPT !.finalTimers = @ \ {tm}]
        c == g.playbackController
    IN IF ~(c # 0 /\ g.sess[c].cancelled) THEN cleanupChapterAudio(g1) ELSE g1

FinalTimerFire(tm) ==
    /\ tm \in st.finalTimers
    /\ now >= tm.due
    /\ st' = Forget(finalCleanupTimer(st, tm))
    /\ UNCHANGED <<passage, streamTarget, now, clicks, vs, svc, tracker, sel>>

Deadlines ==
    {tm.due : tm \in st.hlTimers} \cup {tm.due : tm \in st.finalTimers}
        \cup {tm.due : tm \in st.restartTimers}
        \cup {SourceEnd(src) : src \in st.activeAudioSources}

\* something is in flight whose outcome depends on when it happens
Pending ==
    \/ Deadlines # {}
    \/ \E s \in Sessions : st.sess[s].pc \in {"resuming", "awaiting"}

\* decoding takes no time on the scale of ClockStep, and what a cancelled
\* session still waits for arrives before the clock is looked at again
Decoding ==
    \E s \in Sessions : \E v \in DOMAIN st.sess[s].fetch :
        \/ st.sess[s].fetch[v] = "decoding"
        \/ st.sess[s].fetch[v] = "fetching" /\ st.sess[s].cancelled

\* the clock advances by ClockStep, or to the next deadline if that is
\* sooner; timers and ended events that are due run first
TickTo(limit) ==
    LET step == now + ClockStep
        next == {d \in Deadlines : d > now /\ d < step}
        to == IF next = {} THEN step ELSE CHOOSE d \in next : \A e \in next : d <= e
    IN /\ to <= limit
       /\ \A d \in Deadlines : d > now
       /\ ~Decoding
       /\ Pending
       /\ now' = to
       /\ UNCHANGED <<st, passage, streamTarget, clicks, vs, svc, tracker, sel>>

Tick == TickTo(MaxTime)

CtxOutcomes == {"running", "suspended", "throw"}

\* The whole component: every handler, with clips that are all alike and
\* arrive decoded
Next ==
    \/ \E c \in Chapters : Navigate(c)
    \/ StreamChunk
    \/ \E o \in CtxOutcomes : PlayClick(o)
    \/ \E r \in RateChoices : RateClick(r)
    \/ \E tm \in st.restartTimers, o \in CtxOutcomes : RestartTimerFire(tm, o)
    \/ \E s \in Sessions : ResumeResolve(s)
    \/ \E s \in Sessions : ResumeReject(s)
    \/ \E s \in Sessions, v \in 1..MaxVerses, fault \in BOOLEAN : AudioSettle(s, v, fault)
    \/ \E src \in st.activeAudioSources : SourceEnded(src)
    \/ \E tm \in st.hlTimers : HighlightTimerFire(tm)
    \/ \E tm \in st.finalTimers : FinalTimerFire(tm)
    \/ Tick

Spec == Init /\ [][Next]_vars

----------------------------------------------------------------------------
\* One chapter session left alone: the chapter is on screen, play is
\* clicked once, and every fetch and decode may take any time, succeed or
\* fail, with any of the clip durations.
InitSeq ==
    /\ st = InitialState
    /\ vs = InitialVerseState
    /\ svc = InitialService
    /\ tracker = InitialTracker
    /\ sel = InitialSelection
    /\ streamTarget \in Chapters
    /\ passage = ChapterText(streamTarget)
    /\ now = 0
    /\ clicks = 1

PlayOnce(ctxOutcome) ==
    /\ st.nSessions = 0
    /\ ctxOutcome # "throw"
    /\ PlayClick(ctxOutcome)

TickSeq == TickTo(SeqMaxTime)

NextSeq ==
    \/ \E o \in CtxOutcomes : PlayOnce(o)
    \/ \E s \in Sessions : ResumeResolve(s)
    \/ \E s \in Sessions, v \in 1..MaxVerses, ok \in BOOLEAN : FetchSettle(s, v, ok)
    \/ \E s \in Sessions, v \in 1..MaxVerses, d \in Durations \cup {0} :
          DecodeSettle(s, v, d, FALSE)
    \/ \E src \in st.activeAudioSources : SourceEnded(src)
    \/ \E tm \in st.hlTimers : HighlightTimerFire(tm)
    \/ \E tm \in st.finalTimers : FinalTimerFire(tm)
    \/ TickSeq

SpecSeq == InitSeq /\ [][NextSeq]_vars

----------------------------------------------------------------------------
\* Vocabulary of the properties

\* a session that has its controller and was not cancelled
Uncancelled(s) == st.sess[s].hasCtl /\ ~st.sess[s].cancelled

Starts(s) == st.sess[s].starts
FailedVerses(s) == {v \in DOMAIN st.sess[s].fetch : st.sess[s].fetch[v] = "null"}
OkVerses(s) == {v \in DOMAIN st.sess[s].fetch : st.sess[s].fetch[v] = "ok"}
StartedVerses(s) == {Starts(s)[k].verse : k \in DOMAIN Starts(s)}

\* the two-verse scenario: clips of 1.0 s and 1.5 s, rate 1.0, both
\* fetches resolved at clock 0
Scenario(s) ==
    /\ Uncancelled(s)
    /\ st.sess[s].rate = 10
    /\ Len(Starts(s)) = 2
    /\ st.sess[s].dur = <<1000, 1500>>
    /\ Starts(s)[1].clock = 0 /\ Starts(s)[2].clock = 0

----------------------------------------------------------------------------
\* C1: a chapter session that is not cancelled issues exactly one audio
\* start per verse whose fetch and decode succeeded (N - F starts once its
\* loop is over), the start times are strictly increasing, and no two
\* scheduled intervals [start, start + duration/rate) overlap.
C1_StartsCountedAndDisjoint ==
    \A s \in Sessions : Uncancelled(s) =>
        /\ \A j, k \in DOMAIN Starts(s) : j < k =>
              /\ Starts(s)[j].start < Starts(s)[k].start
              /\ Starts(s)[j].end <= Starts(s)[k].start
        /\ \A k \in DOMAIN Starts(s) : Starts(s)[k].start < Starts(s)[k].end
        /\ Len(Starts(s)) <= Len(st.sess[s].verses) - Cardinality(FailedVerses(s))
        /\ st.sess[s].pc = "done" =>
              Len(Starts(s)) = Len(st.sess[s].verses) - Cardinality(FailedVerses(s))

\* a finished session of two verses, one of which failed, with one start
C1_Witness ==
    \E s \in Sessions :
        /\ Uncancelled(s) /\ st.sess[s].pc = "done"
        /\ Len(st.sess[s].verses) = 2
        /\ Cardinality(FailedVerses(s)) = 1
        /\ Len(Starts(s)) = 1

\* C2: audio starts are issued in verse order whatever the order in which
\* the fetches resolve.
C2_StartsInVerseOrder ==
    \A s \in Sessions : Uncancelled(s) =>
        /\ \A j, k \in DOMAIN Starts(s) : j < k => Starts(s)[j].verse < Starts(s)[k].verse
        /\ \A v \in StartedVerses(s) : \A u \in 1..(v - 1) : st.sess[s].fetch[u] \in {"ok", "null"}

\* verse 2 has resolved while verse 1 is still in flight, and nothing was started
C2_Witness ==
    \E s \in Sessions :
        /\ Uncancelled(s) /\ st.sess[s].pc = "awaiting"
        /\ Len(st.sess[s].verses) >= 2
        /\ st.sess[s].fetch[2] = "ok"
        /\ st.sess[s].fetch[1] \in {"fetching", "decoding"}
        /\ Starts(s) = <<>>

\* C4: a verse whose fetch or decode failed gets no audio start and does
\* not advance nextStartTime, the session stays in the playing state, and
\* every verse that succeeded is scheduled once the loop is over.
C4_FailureSkipsOneVerse ==
    \A s \in Sessions : Uncancelled(s) =>
        /\ StartedVerses(s) \cap FailedVerses(s) = {}
        /\ IF Starts(s) = <<>>
           THEN st.sess[s].nextStartTime <= now
           ELSE st.sess[s].nextStartTime = Starts(s)[Len(Starts(s))].end
        /\ st.sess[s].pc \in {"awaiting", "done"} => st.chapterAudioState = "playing"
        /\ st.sess[s].pc = "done" => StartedVerses(s) = OkVerses(s)

\* verse 1 failed and verse 2 was scheduled all the same
C4_Witness ==
    \E s \in Sessions :
        /\ Uncancelled(s) /\ st.sess[s].pc = "done"
        /\ 1 \in FailedVerses(s)
        /\ StartedVerses(s) = {2}
        /\ st.chapterAudioState = "playing"

\* C5: each verse starts at max(nextStartTime, clock): not before the clock
\* at scheduling, not before the end of the verse before it, and at one of
\* the two; the timeline then advances by duration / rate.  In the
\* scenario verse 1 starts at 0 and verse 2 at 1000.
C5_StartIsMaxOfTimelineAndClock ==
    \A s \in Sessions : Uncancelled(s) =>
        /\ \A k \in DOMAIN Starts(s) :
              LET x == Starts(s)[k]
                  before == IF k = 1 THEN x.clock ELSE Starts(s)[k - 1].end
              IN /\ x.start = Max(before, x.clock)
                 /\ x.end = x.start + (st.sess[s].dur[x.verse] * 10) \div st.sess[s].rate
        /\ Starts(s) # <<>> => st.sess[s].nextStartTime = Starts(s)[Len(Starts(s))].end
        /\ Scenario(s) => Starts(s)[1].start = 0 /\ Starts(s)[2].start = 1000

C5_Witness == \E s \in Sessions : Scenario(s)

\* C6: once the loop of an uncancelled session is over a final cleanup is
\* pending, due (remaining scheduled time) + 500 ms after the loop ended
\* (at 3000 in the scenario); it does not run before the end of the last
\* verse, and when it runs chapterAudioState is idle, the active-source
\* set is empty and currentlyPlayingVerse is null.
FinalTimerOf(s) == {tm \in st.finalTimers : tm.s = s}

C6_Pending ==
    \A s \in Sessions : Uncancelled(s) /\ st.sess[s].pc = "done" =>
        /\ \E tm \in FinalTimerOf(s) :
              /\ tm.due >= st.sess[s].nextStartTime + FinalCleanupMargin
              /\ tm.due <= Max(st.sess[s].nextStartTime, now) + FinalCleanupMargin
              /\ \A k \in DOMAIN Starts(s) : tm.due > Starts(s)[k].end
              /\ Scenario(s) => tm.due = 3000

C6_FinalCleanup ==
    [][ /\ C6_Pending'
        /\ \A tm \in st.finalTimers \ st.finalTimers' :
              /\ now >= tm.due
              /\ \A k \in DOMAIN Starts(tm.s) : now > Starts(tm.s)[k].end
              /\ st.chapterAudioState' = "idle"
              /\ st.activeAudioSources' = {}
              /\ st.currentlyPlayingVerse' = 0 ]_vars

\* the cleanup of the scenario has run at 3000
C6_Witness ==
    /\ now = 3000
    /\ st.chapterAudioState = "idle" /\ st.prevAudioState = "playing"
    /\ st.nSessions = 1 /\ st.sess[1].pc = "gone"
    /\ st.finalTimers = {} /\ st.hlTimers = {} /\ st.activeAudioSources = {}

----------------------------------------------------------------------------
\* C3: cancelling a chapter session stops every audio source it has
\* scheduled and that has not ended, chapterAudioState is idle after the
\* cancel, and a cancelled session starts no audio afterwards.
CancelStep(c) ==
    /\ c # 0
    /\ st.playbackController = c
    /\ st.playbackController' # c
    /\ st.sess[c].cancelled' \/ st.sess[c].pc' \in {"gone", "failed"}

C3_CancelStopsSession ==
    [][ /\ \A c \in Sessions : CancelStep(c) =>
              /\ \A src \in st.audible' \cup st.activeAudioSources' : src[1] # c
              /\ st.chapterAudioState' = "idle"
        /\ \A src \in st.audible' \ st.audible :
              /\ Uncancelled(src[1])
              /\ ~st.sess[src[1]].cancelled' ]_vars

\* a session was cancelled while a verse it scheduled had not begun to play
C3_Witness ==
    \E tm \in st.hlTimers :
        /\ st.sess[tm.s].cancelled
        /\ tm.due > now
        /\ st.audible = {}
        /\ st.chapterAudioState = "idle"

\* C7: at most one chapter session is running with its cancellation flag
\* false.
LiveSessions == {s \in Sessions : Uncancelled(s) /\ st.sess[s].pc = "awaiting"}

C7_AtMostOneLiveSession == Cardinality(LiveSessions) <= 1

\* C8: handlePlayChapter called while the controller is present and not
\* cancelled cancels that session and starts no new one.
ActiveController ==
    st.playbackController # 0 /\ ~st.sess[st.playbackController].cancelled

PlayChapterCalled ==
    \/ \E o \in CtxOutcomes : PlayClick(o)
    \/ \E tm \in st.restartTimers, o \in CtxOutcomes : RestartTimerFire(tm, o)

C8_PlayWhileActiveStops ==
    [][ ActiveController /\ PlayChapterCalled =>
          /\ st.playbackController' = 0
          /\ \A c \in Sessions : c = st.playbackController =>
                st.sess[c].cancelled' \/ st.sess[c].pc' = "gone"
          /\ st.nSessions' = st.nSessions
          /\ \A s \in Sessions : st.sess[s].pc = "unused" => st.sess[s].pc' = "unused"
          /\ st.chapterAudioState' = "idle" ]_vars

\* play was clicked during the only session that was ever started: it is
\* cancelled half way and nothing else was started
C8_Witness ==
    /\ clicks = 1
    /\ st.restartTimers = {}
    /\ st.nSessions = 1
    /\ st.sess[1].cancelled /\ st.sess[1].pc = "awaiting"
    /\ st.playbackController = 0
    /\ st.chapterAudioState = "idle" /\ st.prevAudioState = "playing"

\* C9: chapterAudioState moves along idle -> loading -> playing ->
\* {idle, error}; in particular playing is entered only from loading.
C9_PlayingOnlyFromLoading ==
    st.chapterAudioState = "playing" => st.prevAudioState = "loading"

\* C10: an orchestration error that is not a single-verse fetch failure
\* leaves the session in the error state, torn down.
C10_ErrorStateOnFailure ==
    [][ \A s \in Sessions :
          st.sess[s].pc # "failed" /\ st.sess[s].pc' = "failed" =>
              /\ st.chapterAudioState' = "error"
              /\ st.playbackController' = 0
              /\ st.audible' = {} ]_vars

\* C11: after a playback-rate change made while a chapter session was
\* loading or playing, the restart that runs 100 ms later leaves a chapter
\* session running: playback does not end stopped.
SessionRunning ==
    \/ st.playbackController # 0
    \/ \E s \in Sessions : st.sess[s].pc = "resuming"

RestartFired == \E tm \in st.restartTimers, o \in CtxOutcomes : RestartTimerFire(tm, o)

C11_RestartLeavesSessionRunning == [][RestartFired => SessionRunning']_vars

\* C12: the session started by the restart after a rate change plays under
\* the newly selected rate.
C12_RestartUsesNewRate ==
    [][ RestartFired =>
          \A s \in Sessions :
              st.sess[s].pc = "unused" /\ st.sess[s].pc' # "unused" =>
                  st.sess[s].rate' = st.playbackRate ]_vars

----------------------------------------------------------------------------
\* Verse playback (BibleText.tsx).  Handlers are operators on the record vs.

\* A call that has returned, whose source has ended (or was never made),
\* whose alignment has settled and whose loop has no frame left can act no
\* more: its record is forgotten.
CallFinished(v, c) ==
    /\ v.calls[c].pc \in {"started", "over"}
    /\ v.calls[c].source \in {"none", "ended"}
    /\ v.calls[c].analysis # "pending"
    /\ ~v.calls[c].frame
    /\ v.audioSourceRef # c /\ v.animationFrameRef # c

ForgetCalls(v) ==
    [v EXCEPT !.calls = [c \in DOMAIN v.calls |->
        IF CallFinished(v, c) THEN [NoCall EXCEPT !.pc = "over"] ELSE v.calls[c]]]

\* BibleText.tsx:44-58
cleanupPlayback(v) ==
    LET a == v.audioSourceRef
        v1 == IF a # 0
              THEN [v EXCEPT !.sounding = @ \ {a},
                             !.calls[a].source = IF @ = "playing" THEN "stopped" ELSE @,
                             !.audioSourceRef = 0]
              ELSE v
        f == v1.animationFrameRef
        v2 == IF f # 0
              THEN [v1 EXCEPT !.calls[f].frame = FALSE, !.animationFrameRef = 0]
              ELSE v1
    IN [v2 EXCEPT !.playingState = "idle", !.playingVerseNumber = 0,
                  !.highlightedIndex = -1, !.verseAnalysis = 0]

\* BibleText.tsx:132-135: the catch of handlePlayVerse
playVerseFailed(v, c) == cleanupPlayback([v EXCEPT !.calls[c].pc = "over"])

\* BibleText.tsx:64-80: handlePlayVerse of the current render, up to the
\* first await
handlePlayVerse(v, verse, ctxOutcome) ==
    IF v.playingState # "idle" THEN cleanupPlayback(v)
    ELSE LET c == v.nCalls + 1
             v1 == [v EXCEPT !.nCalls = c,
                             !.calls[c] = NoCall,
                             !.playingState = "loading",
                             !.playingVerseNumber = verse]
             ctx == IF v.audioCtx = "none" THEN ctxOutcome ELSE v.audioCtx
         IN IF ctx = "throw" THEN playVerseFailed(v1, c)
            ELSE IF ctx = "suspended"
            THEN [v1 EXCEPT !.audioCtx = "suspended", !.calls[c].pc = "resuming"]
            ELSE [v1 EXCEPT !.audioCtx = "running", !.calls[c].pc = "fetching"]

\* verseDecoded, but the alignment is requested before the source is started
verseDecodedAlignFirst(v, c) ==
    [v EXCEPT !.audioSourceRef = c,
              !.playingState = "playing",
              !.calls[c].analysis = "pending",
              !.calls[c].pc = "started"]

\* BibleText.tsx:86-102: the audio is decoded: the source is created,
\* started, and the alignment is requested
verseDecoded(v, c) ==
    [v EXCEPT !.audioSourceRef = c,
              !.playingState = "playing",
              !.calls[c].source = "playing",
              !.sounding = @ \cup {c},
              !.calls[c].analysis = "pending",
              !.calls[c].pc = "started"]

\* BibleText.tsx:103-126: the alignment arrived
analysisArrived(v, c, a) ==
    LET v1 == [v EXCEPT !.calls[c].analysis = "ok"]
    IN IF v.audioSourceRef = c
       THEN [v1 EXCEPT !.verseAnalysis = a,
                       !.calls[c].segs = a,
                       !.calls[c].frame = TRUE,
                       !.animationFrameRef = c]
       ELSE v1

\* BibleText.tsx:127-130: the alignment request failed
analysisFailed(v, c) == [v EXCEPT !.calls[c].analysis = "failed"]

\* findIndex, but a segment also contains its end time
RECURSIVE findIndexClosed(_, _, _)
findIndexClosed(segs, e, i) ==
    IF i > Len(segs) THEN -1
    ELSE IF e >= segs[i].startTime /\ e <= segs[i].endTime THEN i - 1
    ELSE findIndexClosed(segs, e, i + 1)

\* BibleText.tsx:120: analysis.findIndex(...), 0-based, -1 when none
RECURSIVE findIndexFrom(_, _, _)
findIndexFrom(segs, e, i) ==
    IF i > Len(segs) THEN -1
    ELSE IF e >= segs[i].startTime /\ e < segs[i].endTime THEN i - 1
    ELSE findIndexFrom(segs, e, i + 1)

findIndex(segs, e) == findIndexFrom(segs, e, 1)

\* onPlaybackUpdate, but without the comparison of the source handles
onPlaybackUpdateUnchecked(v, c, e) ==
    [v EXCEPT !.highlightedIndex = findIndex(Analyses[v.calls[c].segs], e),
              !.calls[c].frame = TRUE,
              !.animationFrameRef = c]

\* BibleText.tsx:108-123: one run of onPlaybackUpdate of call c, e ms after
\* the start of playback
onPlaybackUpdate(v, c, e) ==
    LET v1 == [v EXCEPT !.calls[c].frame = FALSE]
    IN IF v.audioSourceRef # c
       THEN IF v1.animationFrameRef # 0
            THEN [v1 EXCEPT !.calls[v1.animationFrameRef].frame = FALSE,
                            !.animationFrameRef = 0]
            ELSE v1
       ELSE [v1 EXCEPT !.highlightedIndex = findIndex(Analyses[v.calls[c].segs], e),
                       !.calls[c].frame = TRUE,
                       !.animationFrameRef = c]

\* click on the speaker button of a verse on screen (BibleText.tsx:155-161,
\* 195-197: disabled while another verse is loading)
PlayVerseClick(verse, ctxOutcome) ==
    /\ \E j \in DOMAIN ParseVerses(passage) : ParseVerses(passage)[j] = verse
    /\ ~(vs.playingState = "loading" /\ vs.playingVerseNumber # verse)
    /\ vs.playingState = "idle" => vs.nCalls < MaxVerseCalls
    /\ vs.audioCtx # "none" => ctxOutcome = "running"
    /\ vs' = ForgetCalls(handlePlayVerse(vs, verse, ctxOutcome))
    /\ UNCHANGED <<st, passage, streamTarget, now, clicks, svc, tracker, sel>>

\* BibleText.tsx:78-80: resume() settles
VerseResumeSettle(c, ok) ==
    /\ vs.calls[c].pc = "resuming"
    /\ vs' = ForgetCalls(IF ok THEN [vs EXCEPT !.audioCtx = "running",
                                           !.calls[c].pc = "fetching"]
                         ELSE playVerseFailed(vs, c))
    /\ UNCHANGED <<st, passage, streamTarget, now, clicks, svc, tracker, sel>>

\* BibleText.tsx:83: getVersePronunciation settles
VerseFetchSettle(c, ok) ==
    /\ vs.calls[c].pc = "fetching"
    /\ vs' = ForgetCalls(IF ok THEN [vs EXCEPT !.calls[c].pc = "decoding"]
                         ELSE playVerseFailed(vs, c))
    /\ UNCHANGED <<st, passage, streamTarget, now, clicks, svc, tracker, sel>>

\* BibleText.tsx:84: decodeAudioData settles
VerseDecodeSettle(c, ok) ==
    /\ vs.calls[c].pc = "decoding"
    /\ vs' = ForgetCalls(IF ok THEN verseDecoded(vs, c) ELSE playVerseFailed(vs, c))
    /\ UNCHANGED <<st, passage, streamTarget, now, clicks, svc, tracker, sel>>

\* BibleText.tsx:102-103: getVerseAnalysis resolves with alignment a
AnalysisResolve(c, a) ==
    /\ vs.calls[c].analysis = "pending"
    /\ vs' = ForgetCalls(analysisArrived(vs, c, a))
    /\ UNCHANGED <<st, passage, streamTarget, now, clicks, svc, tracker, sel>>

\* BibleText.tsx:127: getVerseAnalysis rejects
AnalysisReject(c) ==
    /\ vs.calls[c].analysis = "pending"
    /\ vs' = ForgetCalls(analysisFailed(vs, c))
    /\ UNCHANGED <<st, passage, streamTarget, now, clicks, svc, tracker, sel>>

\* an animation frame requested by the loop of call c runs
FrameFire(c, e) ==
    /\ vs.calls[c].frame
    /\ vs' = ForgetCalls(onPlaybackUpdate(vs, c, e))
    /\ UNCHANGED <<st, passage, streamTarget, now, clicks, svc, tracker, sel>>

\* BibleText.tsx:95: the ended event of the source of call c, after it
\* played to its end or was stopped
VerseSourceEnded(c) ==
    /\ vs.calls[c].source \in {"playing", "stopped"}
    /\ vs' = ForgetCalls(cleanupPlayback([vs EXCEPT !.calls[c].source = "ended",
                                                    !.sounding = @ \ {c}]))
    /\ UNCHANGED <<st, passage, streamTarget, now, clicks, svc, tracker, sel>>

VerseCtxOutcomes == {"running", "suspended", "throw"}

VerseNumbers == 1..MaxVerses

\* The longest chapter is on screen and nothing has been played yet
InitVerse ==
    /\ InitSeq
    /\ streamTarget = MaxVerses

NextVerse ==
    \/ \E n \in VerseNumbers, o \in VerseCtxOutcomes : PlayVerseClick(n, o)
    \/ \E c \in VerseCalls, ok \in BOOLEAN : VerseResumeSettle(c, ok)
    \/ \E c \in VerseCalls, ok \in BOOLEAN : VerseFetchSettle(c, ok)
    \/ \E c \in VerseCalls, ok \in BOOLEAN : VerseDecodeSettle(c, ok)
    \/ \E c \in VerseCalls, a \in AnalysisIds : AnalysisResolve(c, a)
    \/ \E c \in VerseCalls : AnalysisReject(c)
    \/ \E c \in VerseCalls, e \in ElapsedChoices : FrameFire(c, e)
    \/ \E c \in VerseCalls : VerseSourceEnded(c)

\* The BibleText component alone, with the chapter on screen
SpecVerse == InitVerse /\ [][NextVerse]_vars

----------------------------------------------------------------------------
\* Chapter playback and verse playback side by side, without faults: App
\* renders AudioControls and BibleText together (part_000:461-468)
NextBoth ==
    \/ \E o \in {"running"} : PlayClick(o)
    \/ \E s \in Sessions, v \in 1..MaxVerses : AudioSettle(s, v, FALSE)
    \/ \E src \in st.activeAudioSources : SourceEnded(src)
    \/ \E tm \in st.hlTimers : HighlightTimerFire(tm)
    \/ \E tm \in st.finalTimers : FinalTimerFire(tm)
    \/ Tick
    \/ \E n \in VerseNumbers, o \in {"running"} : PlayVerseClick(n, o)
    \/ \E c \in VerseCalls : VerseFetchSettle(c, TRUE)
    \/ \E c \in VerseCalls : VerseDecodeSettle(c, TRUE)
    \/ \E c \in VerseCalls : VerseSourceEnded(c)

SpecBoth == InitVerse /\ [][NextBoth]_vars

\* C13: chapter playback and verse playback never sound at the same time.
ChapterSounding ==
    \E src \in st.audible :
        LET x == st.sess[src[1]].starts[src[2]] IN x.start <= now /\ now < x.end

C13_ChapterAndVerseExclusive == ~(ChapterSounding /\ vs.sounding # {})

\* C14: play-verse for a verse while a session of another verse is active
\* stops that session and then plays the requested verse.
C14_StopsThenPlaysRequested ==
    [][ \A n \in VerseNumbers, o \in VerseCtxOutcomes :
          PlayVerseClick(n, o) /\ vs.playingState # "idle" /\ vs.playingVerseNumber # n =>
              /\ vs.audioSourceRef # 0 => vs.audioSourceRef \notin vs.sounding'
              /\ vs.nCalls' = vs.nCalls + 1
              /\ vs.playingVerseNumber' = n ]_vars

\* C15: in a verse session the audio source is started before the
\* alignment request is issued, and no outcome of that request (pending for
\* ever, failed, late) delays or prevents the start.
C15_StartBeforeAlignment ==
    [][ \A c \in VerseCalls :
          /\ vs.calls[c].analysis' # "none" => vs.calls[c].source' # "none"
          /\ VerseDecodeSettle(c, TRUE) =>
                /\ vs.calls[c].analysis = "none"
                /\ c \in vs.sounding'
                /\ vs.calls[c].analysis' = "pending" ]_vars

\* the audio of a verse sounds while its alignment request is still pending
C15_Witness ==
    \E c \in VerseCalls :
        /\ vs.calls[c].analysis = "pending"
        /\ c \in vs.sounding
        /\ vs.playingState = "playing"

\* C16: after the alignment request of a verse session failed, and while
\* the source of that session is the live one, no highlighting is shown:
\* highlightedIndex is -1 and verseAnalysis is empty.
AlignmentFailedLive(c) == vs.calls[c].analysis = "failed" /\ vs.audioSourceRef = c

C16_NoHighlightAfterFailure ==
    \A c \in VerseCalls :
        AlignmentFailedLive(c) => vs.highlightedIndex = -1 /\ vs.verseAnalysis = 0

\* C17: every update of the highlight loop sets the highlight index to the
\* first segment whose [startTime, endTime) contains the elapsed time, and to
\* -1 when there is none, whatever the segment list.
Containing(segs, e) ==
    {i \in DOMAIN segs : segs[i].startTime <= e /\ e < segs[i].endTime}

FirstContaining(segs, e) ==
    IF Containing(segs, e) = {} THEN -1
    ELSE (CHOOSE i \in Containing(segs, e) : \A j \in Containing(segs, e) : i <= j) - 1

C17_HighlightIsFirstContaining ==
    [][ \A c \in VerseCalls, e \in ElapsedChoices :
          FrameFire(c, e) /\ vs.audioSourceRef = c =>
              vs.highlightedIndex' = FirstContaining(Analyses[vs.calls[c].segs], e) ]_vars

\* the loop runs over the out-of-order list and highlights its second
\* segment, the one that comes first in time
C17_Witness ==
    \E c \in VerseCalls :
        /\ vs.audioSourceRef = c /\ vs.calls[c].frame
        /\ vs.calls[c].segs = 4
        /\ vs.highlightedIndex = 1

\* C18: once the live source handle differs from the one a highlight loop
\* captured, a run of that loop updates no highlight and requests no further
\* frame; an alignment that arrives when the source of its session is not
\* the live one sets neither verseAnalysis nor the highlight index and
\* starts no loop.
C18_StaleLoopStops ==
    [][ \A c \in VerseCalls :
          /\ \A e \in ElapsedChoices :
                FrameFire(c, e) /\ vs.audioSourceRef # c =>
                    /\ vs.highlightedIndex' = vs.highlightedIndex
                    /\ vs.verseAnalysis' = vs.verseAnalysis
                    /\ ~vs.calls[c].frame'
          /\ \A a \in AnalysisIds :
                AnalysisResolve(c, a) /\ vs.audioSourceRef # c =>
                    /\ vs.highlightedIndex' = vs.highlightedIndex
                    /\ vs.verseAnalysis' = vs.verseAnalysis
                    /\ ~vs.calls[c].frame'
                    /\ vs.animationFrameRef' = vs.animationFrameRef ]_vars

\* the loop of a superseded session has run once more and stopped, with its
\* source still sounding and another source live
C18_Witness ==
    \E c \in VerseCalls :
        /\ vs.calls[c].segs # 0 /\ ~vs.calls[c].frame
        /\ c \in vs.sounding
        /\ vs.audioSourceRef \notin {0, c}

----------------------------------------------------------------------------
\* Passage cache (geminiService.ts).  Handlers are operators on the record svc.

\* a string as a JavaScript condition: null and "" are falsy
Truthy(str) == str \notin {"null", ""}

\* String.prototype.trim on the kinds of text: white space only, a key
\* with spaces around it, text without spaces at its ends
trim(t) == IF t = "ws" THEN "" ELSE IF t = " key " THEN "key" ELSE t

\* fullText += chunkText
concat(a, b) ==
    IF a = "text" \/ b = "text" THEN "text"
    ELSE IF a = "ws" \/ b = "ws" THEN "ws"
    ELSE ""

\* what a chunk of the stream may hold; "" stands for a chunk without text
ChunkKinds == {"", "ws", "text"}

\* what generateContent may answer to getOriginalPassageText: a rejection,
\* text that is not JSON, JSON of a falsy value, JSON of an object
OriginalAnswers == {"reject", "badjson", "falsy", "data"}

\* streamPassageText that never looks into the cache
beginStreamPassageTextNoCache(v, f, k) ==
    [v EXCEPT !.nFetches = f,
              !.fetches[f] = [NoFetch EXCEPT !.key = k, !.pc = "calling", !.usedKey = v.envKey],
              !.calls[k] = @ + 1]

\* geminiService.ts:8: process.env.API_KEY || sessionStorage.getItem(...)
apiKey(v) == IF Truthy(v.envKey) THEN v.envKey ELSE v.sessionKey

\* getAiClient that makes a client of whatever it finds, key or not
getAiClientUnchecked(v, f) ==
    [v EXCEPT !.ai = apiKey(v), !.currentApiKey = apiKey(v),
              !.fetches[f].pc = "calling", !.fetches[f].usedKey = apiKey(v)]

\* geminiService.ts:7-20, called by fetch f, which then issues its request
\* with the client it got
getAiClient(v, f) ==
    IF ~Truthy(apiKey(v))
    THEN [v EXCEPT !.fetches[f].pc = "failed", !.fetches[f].err = "config"]
    ELSE LET v1 == IF v.ai = "null" \/ v.currentApiKey # apiKey(v)
                   THEN [v EXCEPT !.ai = apiKey(v), !.currentApiKey = apiKey(v)]
                   ELSE v
         IN [v1 EXCEPT !.fetches[f].pc = "calling", !.fetches[f].usedKey = v1.ai]

\* geminiService.ts:22-27
setSessionApiKey(v, key) ==
    [v EXCEPT !.sessionKey = key, !.ai = "null", !.currentApiKey = "null"]

\* the underlying call of fetch f is counted under its cache key
countCall(v, f) ==
    IF v.fetches[f].pc = "calling" /\ v.fetches[f].key \in CacheKeys
    THEN [v EXCEPT !.calls[v.fetches[f].key] = @ + 1]
    ELSE v

\* geminiService.ts:44-64: streamPassageText up to the underlying call
beginStreamPassageText(v, f, k) ==
    LET v1 == [v EXCEPT !.nFetches = f, !.fetches[f] = [NoFetch EXCEPT !.key = k]]
    IN IF Truthy(v.storage[k])
       THEN [v1 EXCEPT !.fetches[f].pc = "hit"]
       ELSE countCall(getAiClient(v1, f), f)

\* geminiService.ts:61: generateContentStream settles
passageCallSettled(v, f, ok) ==
    [v EXCEPT !.fetches[f].pc = IF ok THEN "streaming" ELSE "failed",
              !.fetches[f].err = IF ok THEN "" ELSE "api",
              !.fetches[f].usedKey = "null"]

\* geminiService.ts:67-73: one chunk of the stream
passageChunk(v, f, ch) ==
    [v EXCEPT !.fetches[f].acc = IF Truthy(ch) THEN concat(@, ch) ELSE @]

\* a stream end that caches what was received although the stream failed
passageStreamEndStoresPartial(v, f, ok) ==
    LET k == v.fetches[f].key
        acc == v.fetches[f].acc
        v1 == [v EXCEPT !.fetches[f].acc = "",
                        !.fetches[f].pc = IF ok THEN "done" ELSE "failed",
                        !.fetches[f].err = IF ok THEN "" ELSE "api"]
    IN IF Truthy(acc)
       THEN [v1 EXCEPT !.storage[k] = trim(acc),
                       !.completed[k] = IF ok THEN (IF acc = "text" THEN "full" ELSE "blank")
                                        ELSE @]
       ELSE v1

\* geminiService.ts:67, 75-77: the stream ends, normally or with an error
passageStreamEnd(v, f, ok) ==
    LET k == v.fetches[f].key
        acc == v.fetches[f].acc
        v1 == [v EXCEPT !.fetches[f].acc = ""]
    IN IF ~ok THEN [v1 EXCEPT !.fetches[f].pc = "failed", !.fetches[f].err = "api"]
       ELSE IF Truthy(acc)
       THEN [v1 EXCEPT !.fetches[f].pc = "done",
                       !.storage[k] = trim(acc),
                       !.completed[k] = IF acc = "text" THEN "full" ELSE "blank"]
       ELSE [v1 EXCEPT !.fetches[f].pc = "done"]

\* geminiService.ts:82-96: getOriginalPassageText up to the underlying call
beginOriginalPassageText(v, f, k) ==
    LET v1 == [v EXCEPT !.nFetches = f, !.fetches[f] = [NoFetch EXCEPT !.key = k]]
    IN IF Truthy(v.storage[k])
       THEN [v1 EXCEPT !.fetches[f].pc = "hit"]
       ELSE countCall(getAiClient(v1, f), f)

\* geminiService.ts:93-109: generateContent settles with answer r
originalSettled(v, f, r) ==
    LET k == v.fetches[f].key
        v1 == [v EXCEPT !.fetches[f].usedKey = "null"]
    IN IF r \in {"reject", "badjson"}
       THEN [v1 EXCEPT !.fetches[f].pc = "failed", !.fetches[f].err = "api"]
       ELSE IF r = "data"
       THEN [v1 EXCEPT !.fetches[f].pc = "done",
                       !.storage[k] = "json",
                       !.completed[k] = "full"]
       ELSE [v1 EXCEPT !.fetches[f].pc = "done",
                       !.completed[k] = "blank"]

\* a caller starts to consume streamPassageText(book, chapter)
BeginPassageFetch(c) ==
    /\ svc.nFetches < MaxFetches
    /\ svc' = beginStreamPassageText(svc, svc.nFetches + 1, <<"passage", c>>)
    /\ UNCHANGED <<st, passage, streamTarget, now, clicks, vs, tracker, sel>>

PassageCallSettle(f, ok) ==
    /\ svc.fetches[f].pc = "calling"
    /\ svc.fetches[f].key[1] = "passage"
    /\ svc' = passageCallSettled(svc, f, ok)
    /\ UNCHANGED <<st, passage, streamTarget, now, clicks, vs, tracker, sel>>

PassageChunk(f, ch) ==
    /\ svc.fetches[f].pc = "streaming"
    /\ svc' = passageChunk(svc, f, ch)
    /\ UNCHANGED <<st, passage, streamTarget, now, clicks, vs, tracker, sel>>

PassageStreamEnd(f, ok) ==
    /\ svc.fetches[f].pc = "streaming"
    /\ svc' = passageStreamEnd(svc, f, ok)
    /\ UNCHANGED <<st, passage, streamTarget, now, clicks, vs, tracker, sel>>

\* a caller calls getOriginalPassageText(book, chapter, testament)
BeginOriginalFetch(c) ==
    /\ svc.nFetches < MaxFetches
    /\ svc' = beginOriginalPassageText(svc, svc.nFetches + 1, <<"original-passage", c>>)
    /\ UNCHANGED <<st, passage, streamTarget, now, clicks, vs, tracker, sel>>

OriginalSettle(f, r) ==
    /\ svc.fetches[f].pc = "calling"
    /\ svc.fetches[f].key[1] = "original-passage"
    /\ svc' = originalSettled(svc, f, r)
    /\ UNCHANGED <<st, passage, streamTarget, now, clicks, vs, tracker, sel>>

NextCache ==
    \/ \E c \in CachedChapters : BeginPassageFetch(c)
    \/ \E f \in FetchIds, ok \in BOOLEAN : PassageCallSettle(f, ok)
    \/ \E f \in FetchIds, ch \in ChunkKinds : PassageChunk(f, ch)
    \/ \E f \in FetchIds, ok \in BOOLEAN : PassageStreamEnd(f, ok)
    \/ \E c \in CachedChapters : BeginOriginalFetch(c)
    \/ \E f \in FetchIds, r \in OriginalAnswers : OriginalSettle(f, r)

\* The service alone, called any number of times by its callers
SpecCache == Init /\ [][NextCache]_vars

-----------------------------------------------------------------------------
\* The credential: getAiClient, setSessionApiKey and the key form

\* geminiService.ts:113-251: the operations that have no cache
UncachedOps == {"definition", "word-pronunciation", "verse-pronunciation", "analysis"}

\* what can be typed in the key form
KeyInputs == {"", "ws", " key "}

\* geminiService.ts:113-114, 147-148, 170-171, 207-213: an operation
\* without cache up to its underlying call
beginUncached(v, f, op) ==
    getAiClient([v EXCEPT !.nFetches = f, !.fetches[f] = [NoFetch EXCEPT !.key = <<op, 0>>]], f)

\* geminiService.ts:134-145, 150-168, 173-190, 241-251: its call settles
uncachedSettled(v, f, ok) ==
    [v EXCEPT !.fetches[f].usedKey = "null",
              !.fetches[f].pc = IF ok THEN "done" ELSE "failed",
              !.fetches[f].err = IF ok THEN "" ELSE "api"]

BeginUncached(op) ==
    /\ svc.nFetches < MaxFetches
    /\ svc' = beginUncached(svc, svc.nFetches + 1, op)
    /\ UNCHANGED <<st, passage, streamTarget, now, clicks, vs, tracker, sel>>

UncachedSettle(f, ok) ==
    /\ svc.fetches[f].pc = "calling"
    /\ svc.fetches[f].key[1] \in UncachedOps
    /\ svc' = uncachedSettled(svc, f, ok)
    /\ UNCHANGED <<st, passage, streamTarget, now, clicks, vs, tracker, sel>>

\* PassageSelector.tsx:70
showApiKeyForm(s) == s.apiKeyNeeded \/ s.apiError = "config"

\* PassageSelector.tsx:35-37: typing in the key form
TypeKey(k) ==
    /\ showApiKeyForm(sel)
    /\ sel' = [sel EXCEPT !.apiKeyInput = k]
    /\ UNCHANGED <<st, passage, streamTarget, now, clicks, vs, svc, tracker>>

\* PassageSelector.tsx:20-23 and part_000:122-128: handleApiKeySubmit
SubmitKey ==
    /\ showApiKeyForm(sel)
    /\ IF Truthy(trim(sel.apiKeyInput))
       THEN /\ svc' = setSessionApiKey(svc, trim(sel.apiKeyInput))
            /\ sel' = [sel EXCEPT !.apiKeyNeeded = FALSE, !.apiError = "null",
                                  !.submitted = sel.apiKeyInput]
       ELSE /\ svc' = svc
            /\ sel' = [sel EXCEPT !.submitted = sel.apiKeyInput]
    /\ UNCHANGED <<st, passage, streamTarget, now, clicks, vs, tracker>>

\* part_000:48-55: no key in the environment and none in the session
InitNoKey ==
    /\ st = InitialState
    /\ vs = InitialVerseState
    /\ svc = [InitialService EXCEPT !.envKey = "null"]
    /\ tracker = InitialTracker
    /\ sel = [InitialSelection EXCEPT !.apiKeyNeeded = TRUE]
    /\ passage = <<>>
    /\ streamTarget = 0
    /\ now = 0
    /\ clicks = 0

NextKey ==
    \/ \E k \in KeyInputs : TypeKey(k)
    \/ SubmitKey
    \/ BeginPassageFetch(1)
    \/ \E f \in FetchIds, ok \in BOOLEAN : PassageCallSettle(f, ok)
    \/ \E f \in FetchIds, ok \in BOOLEAN : PassageStreamEnd(f, ok)
    \/ BeginOriginalFetch(1)
    \/ \E f \in FetchIds, r \in OriginalAnswers : OriginalSettle(f, r)
    \/ \E op \in UncachedOps : BeginUncached(op)
    \/ \E f \in FetchIds, ok \in BOOLEAN : UncachedSettle(f, ok)

\* The service called by anyone for one chapter, starting without any
\* credential
SpecKey == InitNoKey /\ [][NextKey]_vars

\* fetch f begins in this step and needs the network
BeginsOverNetwork(f) ==
    /\ svc.fetches[f].pc = "unused"
    /\ svc.fetches[f].pc' \notin {"unused", "hit"}

\* C23 (as amended): while there is no credential, every operation that
\* needs the network fails with the configuration error without issuing a
\* request; a failed operation is never taken up again and submitting a key
\* starts no operation; once a key that is not blank has been submitted,
\* every operation that needs the network issues its request with a client
\* made of that key, trimmed.
C23_NoCredentialNoRequest ==
    [][/\ \A f \in FetchIds :
             /\ BeginsOverNetwork(f) /\ ~Truthy(apiKey(svc))
                    => /\ svc.fetches[f].pc' = "failed"
                       /\ svc.fetches[f].err' = "config"
                       /\ svc.calls' = svc.calls
             /\ svc.fetches[f].pc = "failed" => svc.fetches[f]' = svc.fetches[f]
             /\ BeginsOverNetwork(f) /\ sel.submitted # "none" /\ Truthy(trim(sel.submitted))
                    => /\ svc.fetches[f].pc' = "calling"
                       /\ svc.fetches[f].usedKey' = trim(sel.submitted)
       /\ sel.submitted' # sel.submitted
             => /\ svc.fetches' = svc.fetches
                /\ svc.calls' = svc.calls
                /\ Truthy(trim(sel.submitted')) => svc.sessionKey' = trim(sel.submitted')]_vars

\* C23 as stated: once a non-empty key has been submitted, the next
\* operation uses it.  A key of white space only is not empty, and
\* handleApiKeySubmit ignores it.
C23_NonEmptyKeyIsUsed ==
    [][\A f \in FetchIds :
          BeginsOverNetwork(f) /\ sel.submitted \notin {"none", ""}
              => svc.fetches[f].pc' = "calling"]_vars

\* The first operation failed for want of a key, a key was submitted, and
\* the second operation has issued its request with it.
C23_Witness ==
    /\ svc.fetches[1].pc = "failed" /\ svc.fetches[1].err = "config"
    /\ sel.submitted = " key "
    /\ svc.fetches[2].pc = "calling" /\ svc.fetches[2].usedKey = "key"
    /\ svc.fetches[2].key = svc.fetches[1].key

-----------------------------------------------------------------------------
\* part_000:135-198: handlePassageSelect with the service it calls.  The
\* operations of invocation i are the fetches <<i, role>> of the service.

\* part_000:190: the message that replaces the passage
ErrorText == <<[kind |-> "error", number |-> 0]>>

\* what BibleText shows of the text received so far of chapter c
DisplayOf(text, c) ==
    IF text = "" THEN <<>>
    ELSE IF text = "ws" THEN <<[kind |-> "blank", number |-> 0]>>
    ELSE ChapterText(c)

\* part_000:168-184: the chapters next to c in the book, next one first
Adjacent(c) ==
    (IF c + 1 \in CachedChapters THEN <<c + 1>> ELSE <<>>)
        \o (IF c - 1 \in CachedChapters THEN <<c - 1>> ELSE <<>>)

\* the state handlePassageSelect works on
Bundle(v, s, p) == [svc |-> v, sel |-> s, passage |-> p]

\* of a finished operation only this is kept: that it is over, and for a
\* prefetch whether it failed; the calls of the service are not counted here
forgetOp(v, f) ==
    LET v1 == [v EXCEPT !.nFetches = 0,
                        !.calls = InitialService.calls,
                        !.completed = InitialService.completed]
        pc == v.fetches[f].pc
    IN IF pc \in {"hit", "done", "failed"}
       THEN [v1 EXCEPT !.fetches[f] =
                [NoFetch EXCEPT !.pc = IF pc = "failed" /\ f[2] \in {"pre-stream", "pre-original"}
                                       THEN "failed" ELSE "over"]]
       ELSE v1

\* part_000:171-172: a prefetch failed, and the error is shown to the user
prefetchFailedSurfaces(w) ==
    [w EXCEPT !.sel.apiError = "prefetch"]

\* part_000:171-172: a prefetch failed: console.warn
prefetchFailed(w) == w

\* part_000:169-173: prefetchChapter(b, c, testament) of invocation i
prefetchChapter(w, i, c) ==
    LET v1 == beginStreamPassageText(w.svc, <<i, "pre-stream">>, <<"passage", c>>)
        v2 == beginOriginalPassageText(v1, <<i, "pre-original">>, <<"original-passage", c>>)
        w1 == [w EXCEPT !.svc = forgetOp(forgetOp(v2, <<i, "pre-stream">>), <<i, "pre-original">>)]
        w2 == IF v2.fetches[<<i, "pre-stream">>].pc = "failed" THEN prefetchFailed(w1) ELSE w1
    IN IF v2.fetches[<<i, "pre-original">>].pc = "failed" THEN prefetchFailed(w2) ELSE w2

\* part_000:167-184, 195-197: the stream of invocation i has ended
selectCompleted(w, i) ==
    LET c == w.sel.calls[i].chapter
        w1 == IF Adjacent(c) = <<>> THEN w ELSE prefetchChapter(w, i, Adjacent(c)[1])
    IN [w1 EXCEPT !.sel.calls[i] = [NoSelect EXCEPT !.pc = "done"],
                  !.sel.isLoadingPassage = FALSE]

\* the catch of handlePassageSelect that leaves the loading flag set
selectFailedKeepsLoading(w, i, err) ==
    [w EXCEPT !.passage = ErrorText,
              !.sel.apiError = IF err # "" THEN err ELSE @,
              !.sel.calls[i].pc = "failed"]

\* part_000:186-197: the stream of invocation i has thrown; err is the
\* message if it mentions "API", "" if it does not
selectFailed(w, i, err) ==
    [w EXCEPT !.passage = ErrorText,
              !.sel.apiError = IF err # "" THEN err ELSE @,
              !.sel.calls[i].pc = "failed",
              !.sel.isLoadingPassage = FALSE]

\* part_000:162-165: the loop body, for a chunk of kind ch
selectChunk(w, i, ch) ==
    LET t == concat(w.sel.calls[i].fullText, ch)
    IN [w EXCEPT !.sel.calls[i].fullText = t,
                 !.passage = DisplayOf(t, w.sel.calls[i].chapter)]

\* part_000:149-155: the original passage of invocation i has settled
selectOriginalSettled(w, i, r) ==
    IF r \in {"reject", "badjson", "config"} THEN [w EXCEPT !.sel.apiError = "original"]
    ELSE IF r = "data" THEN [w EXCEPT !.sel.originalPassage = "json"]
    ELSE [w EXCEPT !.sel.originalPassage = "null"]

\* part_000:135-165: handlePassageSelect(book, c) as invocation i, up to
\* its first wait
handlePassageSelect(w, i, c) ==
    LET w0 == [w EXCEPT !.passage = <<>>,
                        !.sel.tip.data = NoTooltip,
                        !.sel.tip.settled = "none",
                        !.sel.selectedChapter = c,
                        !.sel.isLoadingPassage = TRUE,
                        !.sel.originalPassage = "null",
                        !.sel.apiError = "null",
                        !.sel.nCalls = i,
                        !.sel.calls[i] = [NoSelect EXCEPT !.pc = "streaming", !.chapter = c]]
        v1 == beginOriginalPassageText(w0.svc, <<i, "original">>, <<"original-passage", c>>)
        v2 == beginStreamPassageText(v1, <<i, "stream">>, <<"passage", c>>)
        o == v2.fetches[<<i, "original">>].pc
        t == v2.fetches[<<i, "stream">>].pc
        w1 == [w0 EXCEPT !.svc = forgetOp(forgetOp(v2, <<i, "original">>), <<i, "stream">>)]
        w2 == IF o = "hit" THEN selectOriginalSettled(w1, i, "data")
              ELSE IF o = "failed" THEN selectOriginalSettled(w1, i, "config")
              ELSE w1
    IN IF t = "hit" THEN selectCompleted(selectChunk(w2, i, "text"), i)
       ELSE IF t = "failed" THEN selectFailed(w2, i, "config")
       ELSE w2

\* the state after a step of handlePassageSelect
SelectStep(w) ==
    /\ svc' = w.svc
    /\ sel' = w.sel
    /\ passage' = w.passage

\* a chapter button of the selector is clicked (PassageSelector.tsx:120-123)
SelectChapter(c) ==
    /\ ~sel.apiKeyNeeded
    /\ sel.nCalls + 1 \in SelectCalls
    /\ st' = Forget(cleanupChapterAudio(st))
    /\ SelectStep(handlePassageSelect(Bundle(svc, sel, passage), sel.nCalls + 1, c))
    /\ UNCHANGED <<streamTarget, now, clicks, vs, tracker>>

\* geminiService.ts:61: generateContentStream of the selected chapter settles
SelectCallSettle(i, ok, err) ==
    /\ svc.fetches[<<i, "stream">>].pc = "calling"
    /\ LET v == forgetOp(passageCallSettled(svc, <<i, "stream">>, ok), <<i, "stream">>)
       IN SelectStep(IF ok THEN Bundle(v, sel, passage)
                     ELSE selectFailed(Bundle(v, sel, passage), i, err))
    /\ UNCHANGED <<st, streamTarget, now, clicks, vs, tracker>>

\* geminiService.ts:67-73 and part_000:162-165: a chunk of the selected chapter
SelectChunk(i, ch) ==
    /\ svc.fetches[<<i, "stream">>].pc = "streaming"
    /\ LET v == passageChunk(svc, <<i, "stream">>, ch)
       IN SelectStep(IF Truthy(ch) THEN selectChunk(Bundle(v, sel, passage), i, ch)
                     ELSE Bundle(v, sel, passage))
    /\ UNCHANGED <<st, streamTarget, now, clicks, vs, tracker>>

\* geminiService.ts:67, 75-77: the stream of the selected chapter ends
SelectStreamEnd(i, ok, err) ==
    /\ svc.fetches[<<i, "stream">>].pc = "streaming"
    /\ LET v == forgetOp(passageStreamEnd(svc, <<i, "stream">>, ok), <<i, "stream">>)
       IN SelectStep(IF ok THEN selectCompleted(Bundle(v, sel, passage), i)
                     ELSE selectFailed(Bundle(v, sel, passage), i, err))
    /\ UNCHANGED <<st, streamTarget, now, clicks, vs, tracker>>

\* geminiService.ts:93-109 and part_000:149-155
SelectOriginalSettle(i, r) ==
    /\ svc.fetches[<<i, "original">>].pc = "calling"
    /\ LET v == forgetOp(originalSettled(svc, <<i, "original">>, r), <<i, "original">>)
       IN SelectStep(selectOriginalSettled(Bundle(v, sel, passage), i, r))
    /\ UNCHANGED <<st, streamTarget, now, clicks, vs, tracker>>

\* part_000:171: the prefetched stream: its call settles
PrefetchCallSettle(i, ok) ==
    /\ svc.fetches[<<i, "pre-stream">>].pc = "calling"
    /\ LET v == forgetOp(passageCallSettled(svc, <<i, "pre-stream">>, ok), <<i, "pre-stream">>)
       IN SelectStep(IF ok THEN Bundle(v, sel, passage)
                     ELSE prefetchFailed(Bundle(v, sel, passage)))
    /\ UNCHANGED <<st, streamTarget, now, clicks, vs, tracker>>

\* part_000:130-133, 171: consumeStream takes the chunks, of kind ch
\* together, and the stream ends
PrefetchStreamEnd(i, ch, ok) ==
    /\ svc.fetches[<<i, "pre-stream">>].pc = "streaming"
    /\ LET v == forgetOp(passageStreamEnd(passageChunk(svc, <<i, "pre-stream">>, ch),
                                          <<i, "pre-stream">>, ok), <<i, "pre-stream">>)
       IN SelectStep(IF ok THEN Bundle(v, sel, passage)
                     ELSE prefetchFailed(Bundle(v, sel, passage)))
    /\ UNCHANGED <<st, streamTarget, now, clicks, vs, tracker>>

\* part_000:172: the prefetched original passage settles
PrefetchOriginalSettle(i, r) ==
    /\ svc.fetches[<<i, "pre-original">>].pc = "calling"
    /\ LET v == forgetOp(originalSettled(svc, <<i, "pre-original">>, r), <<i, "pre-original">>)
       IN SelectStep(IF r \in {"reject", "badjson"}
                     THEN prefetchFailed(Bundle(v, sel, passage))
                     ELSE Bundle(v, sel, passage))
    /\ UNCHANGED <<st, streamTarget, now, clicks, vs, tracker>>

\* error messages that mention "API", and "" for one that does not
ApiMessages == {"", "api"}

\* the chunks of a selected chapter: without text, with text
SelectChunkKinds == {"", "text"}

InitSelect ==
    /\ st = InitialState
    /\ vs = InitialVerseState
    /\ svc = [InitialService EXCEPT !.fetches = [f \in SelectOps |-> NoFetch]]
    /\ tracker = InitialTracker
    /\ sel = InitialSelection
    /\ passage = <<>>
    /\ streamTarget = 0
    /\ now = 0
    /\ clicks = 0

NextSelect ==
    \/ \E c \in CachedChapters : SelectChapter(c)
    \/ \E i \in SelectCalls, ok \in BOOLEAN, err \in ApiMessages : SelectCallSettle(i, ok, err)
    \/ \E i \in SelectCalls, ch \in SelectChunkKinds : SelectChunk(i, ch)
    \/ \E i \in SelectCalls, ok \in BOOLEAN, err \in ApiMessages : SelectStreamEnd(i, ok, err)
    \/ \E i \in SelectCalls, r \in OriginalAnswers : SelectOriginalSettle(i, r)
    \/ \E i \in SelectCalls, ok \in BOOLEAN : PrefetchCallSettle(i, ok)
    \/ \E i \in SelectCalls, ch \in SelectChunkKinds, ok \in BOOLEAN : PrefetchStreamEnd(i, ch, ok)
    \/ \E i \in SelectCalls, r \in OriginalAnswers : PrefetchOriginalSettle(i, r)

\* Chapters of a book are selected, one after or during the other
SpecSelect == InitSelect /\ [][NextSelect]_vars

\* the stream of invocation i fails in this step
SelectFails(i) ==
    /\ sel.calls[i].pc = "streaming"
    /\ sel.calls[i].pc' = "failed"

\* C24: when the passage fetch of a selection fails, the displayed passage
\* becomes the error message and the loading flag is cleared, and neither
\* then nor later is a prefetch of the adjacent chapter started for that
\* selection.
C24_FailedSelectionShowsError ==
    [][\A i \in SelectCalls :
          /\ SelectFails(i) => passage' = ErrorText /\ ~sel.isLoadingPassage'
          /\ sel.calls[i].pc' = "failed"
                => /\ svc.fetches[<<i, "pre-stream">>].pc' = "unused"
                   /\ svc.fetches[<<i, "pre-original">>].pc' = "unused"]_vars

\* The stream of a selection failed after text of it had been displayed.
C24_Witness ==
    \E i \in SelectCalls :
        /\ sel.calls[i].pc = "failed"
        /\ sel.calls[i].fullText = "text"
        /\ passage = ErrorText
        /\ ~sel.isLoadingPassage

\* a prefetch of invocation i fails in this step
PrefetchFails(i) ==
    \E role \in {"pre-stream", "pre-original"} :
        /\ svc.fetches[<<i, role>>].pc # "failed"
        /\ svc.fetches[<<i, role>>].pc' = "failed"

\* C25: a step in which a prefetch fails changes none of the displayed
\* passage, the displayed original passage, the API error and the loading
\* flag.
C25_PrefetchFailureIsSilent ==
    [][\A i \in SelectCalls :
          PrefetchFails(i)
              => /\ passage' = passage
                 /\ sel.originalPassage' = sel.originalPassage
                 /\ sel.apiError' = sel.apiError
                 /\ sel.isLoadingPassage' = sel.isLoadingPassage]_vars

\* Both prefetches of a selection have failed under the displayed chapter.
C25_Witness ==
    \E i \in SelectCalls :
        /\ svc.fetches[<<i, "pre-stream">>].pc = "failed"
        /\ svc.fetches[<<i, "pre-original">>].pc = "failed"
        /\ sel.calls[i].pc = "done"
        /\ passage = ChapterText(sel.selectedChapter)
        /\ sel.apiError = "null"

-----------------------------------------------------------------------------
\* trackerUtils.ts: the reading tracker

RECURSIVE SortedSeq(_)
\* the keys of a chapter map in the order JSON.stringify writes them
SortedSeq(S) ==
    IF S = {} THEN <<>>
    ELSE LET m == CHOOSE x \in S : \A y \in S : x <= y
         IN <<m>> \o SortedSeq(S \ {m})

\* trackerUtils.ts:22, :47: JSON.stringify(status)
stringify(status) ==
    [set |-> TRUE,
     text |-> [i \in DOMAIN status |-> [book |-> status[i].book,
                                        chapters |-> SortedSeq(status[i].chapters)]]]

\* trackerUtils.ts:8: JSON.parse(status)
parse(str) ==
    [i \in DOMAIN str.text |->
        [book |-> str.text[i].book,
         chapters |-> {str.text[i].chapters[j] : j \in DOMAIN str.text[i].chapters}]]

\* trackerUtils.ts:5-13
getReadingStatus(storage) ==
    IF ~storage.set THEN <<>> ELSE parse(storage)

\* position of the entry of a book in a status, 0 if it has none
BookIndex(status, book) ==
    IF \E i \in DOMAIN status : status[i].book = book
    THEN CHOOSE i \in DOMAIN status : status[i].book = book
    ELSE 0

\* trackerUtils.ts:18-20, :31-33: if (!status[book]) status[book] = {}
withBook(status, book) ==
    IF BookIndex(status, book) = 0
    THEN Append(status, [book |-> book, chapters |-> {}])
    ELSE status

\* delete status[book]
deleteBook(status, i) ==
    [j \in 1..(Len(status) - 1) |-> IF j < i THEN status[j] ELSE status[j + 1]]

\* markChapterAsRead that creates the entry of the book and marks nothing
markCreatesBookOnly(storage, book, chapter) ==
    stringify(withBook(getReadingStatus(storage), book))

\* trackerUtils.ts:15-26; the result is the new storage
markChapterAsRead(storage, book, chapter) ==
    LET s == withBook(getReadingStatus(storage), book)
        i == BookIndex(s, book)
    IN stringify([s EXCEPT ![i].chapters = @ \cup {chapter}])

\* toggleChapterReadStatus that leaves the emptied book entry in place
toggleKeepsEmptyBook(storage, book, chapter) ==
    LET s == withBook(getReadingStatus(storage), book)
        i == BookIndex(s, book)
    IN IF chapter \in s[i].chapters
       THEN stringify([s EXCEPT ![i].chapters = @ \ {chapter}])
       ELSE stringify([s EXCEPT ![i].chapters = @ \cup {chapter}])

\* toggleChapterReadStatus that forgets the whole book when it unmarks
toggleDeletesBook(storage, book, chapter) ==
    LET s == withBook(getReadingStatus(storage), book)
        i == BookIndex(s, book)
    IN IF chapter \in s[i].chapters
       THEN stringify(deleteBook(s, i))
       ELSE stringify([s EXCEPT ![i].chapters = @ \cup {chapter}])

\* trackerUtils.ts:28-51; the result is the new storage
toggleChapterReadStatus(storage, book, chapter) ==
    LET s == withBook(getReadingStatus(storage), book)
        i == BookIndex(s, book)
    IN IF chapter \in s[i].chapters
       THEN LET s1 == [s EXCEPT ![i].chapters = @ \ {chapter}]
            IN stringify(IF s1[i].chapters = {} THEN deleteBook(s1, i) ELSE s1)
       ELSE stringify([s EXCEPT ![i].chapters = @ \cup {chapter}])

\* trackerUtils.ts:53-55
isChapterRead(status, book, chapter) ==
    \E i \in DOMAIN status : status[i].book = book /\ chapter \in status[i].chapters

\* part_001:74-77: BibleTrackerModal.handleChapterClick
handleChapterClick(t, book, chapter) ==
    LET storage == toggleChapterReadStatus(t.storage, book, chapter)
    IN [storage |-> storage,
        readingStatus |-> getReadingStatus(storage),
        last |-> <<"toggle", book, chapter>>,
        before |-> t.storage,
        twice |-> (t.last = <<"toggle", book, chapter>>)]

ChapterClick(book, chapter) ==
    /\ tracker' = handleChapterClick(tracker, book, chapter)
    /\ UNCHANGED <<st, passage, streamTarget, now, clicks, vs, svc, sel>>

\* markChapterAsRead is called from outside the modal
MarkChapter(book, chapter) ==
    /\ tracker' = [tracker EXCEPT !.storage = markChapterAsRead(@, book, chapter),
                                  !.last = <<"mark", book, chapter>>,
                                  !.before = tracker.storage,
                                  !.twice = FALSE]
    /\ UNCHANGED <<st, passage, streamTarget, now, clicks, vs, svc, sel>>

\* part_001:62-66: the modal is opened
OpenTracker ==
    /\ tracker' = [tracker EXCEPT !.readingStatus = getReadingStatus(tracker.storage)]
    /\ UNCHANGED <<st, passage, streamTarget, now, clicks, vs, svc, sel>>

NextTracker ==
    \/ \E b \in TrackerBooks, c \in TrackerChapters : ChapterClick(b, c)
    \/ \E b \in TrackerBooks, c \in TrackerChapters : MarkChapter(b, c)
    \/ OpenTracker

SpecTracker == Init /\ [][NextTracker]_vars

\* the persisted status as a value: its book entries, whatever their order
StatusValue(storage) ==
    LET s == getReadingStatus(storage)
    IN {<<s[i].book, s[i].chapters>> : i \in DOMAIN s}

-----------------------------------------------------------------------------
\* C19 (as amended): once a fetch of a key has completed with text that is
\* not blank (for the original-language passage: with JSON of a truthy
\* value), the cache holds the key and no later step issues an underlying
\* call for it: every later fetch of the key is served from the cache.
\* (Of concurrent fetches of one key the last to complete decides what the
\* cache holds.)
C19_NoCallAfterFullFetch ==
    [][\A k \in CacheKeys :
          svc.completed[k] = "full"
              => /\ Truthy(svc.storage[k])
                 /\ svc.calls[k]' = svc.calls[k]]_vars

\* C19 as stated: the same after any fetch that completed successfully with
\* non-empty text.  Text of white space only is stored trimmed, as the empty
\* string, which the next fetch takes for a miss; JSON of a falsy value is
\* not stored at all.
C19_NoCallAfterSuccessfulFetch ==
    [][\A k \in CacheKeys :
          svc.completed[k] # "none" => svc.calls[k]' = svc.calls[k]]_vars

\* Two fetches of one key: the first called the service once and
\* completed, the second was served from the cache.
C19_Witness ==
    \E k \in CacheKeys :
        /\ svc.nFetches = 2
        /\ svc.completed[k] = "full"
        /\ svc.calls[k] = 1
        /\ svc.fetches[1].key = k /\ svc.fetches[1].pc = "done"
        /\ svc.fetches[2].key = k /\ svc.fetches[2].pc = "hit"

\* C20: the cache entry of a key changes only in a step in which a fetch of
\* that key completes successfully, so a fetch whose call, stream or JSON
\* parse fails writes nothing under its key; and a fetch that begins while
\* the cache holds nothing usable under its key issues the underlying call.
C20_FailureWritesNothing ==
    [][/\ \A k \in CacheKeys :
             svc.storage[k]' # svc.storage[k]
                 => \E f \in FetchIds :
                        /\ svc.fetches[f].key = k
                        /\ svc.fetches[f].pc \in {"calling", "streaming"}
                        /\ svc.fetches[f].pc' = "done"
       /\ \A f \in FetchIds, k \in CacheKeys :
             /\ svc.fetches[f].pc = "unused"
             /\ svc.fetches[f].pc' # "unused"
             /\ svc.fetches[f].key' = k
             /\ ~Truthy(svc.storage[k])
             => /\ svc.fetches[f].pc' = "calling"
                /\ svc.calls[k]' = svc.calls[k] + 1]_vars

\* Two fetches of one key: the first fetch failed, the cache holds nothing
\* under the key, and the second fetch of the key has issued the call again.
C20_Witness ==
    \E c \in CachedChapters, kind \in {"passage", "original-passage"} :
        /\ svc.nFetches = 2
        /\ svc.fetches[1].key = <<kind, c>> /\ svc.fetches[1].pc = "failed"
        /\ svc.fetches[2].key = <<kind, c>> /\ svc.fetches[2].pc = "calling"
        /\ svc.storage[<<kind, c>>] = "null"
        /\ svc.calls[<<kind, c>>] = 2

-----------------------------------------------------------------------------
\* a timer of a cancelled session fires in this step
StaleTimerFires ==
    \E tm \in st.hlTimers \cup st.finalTimers :
        /\ tm \notin st.hlTimers' \cup st.finalTimers'
        /\ st.sess[tm.s].cancelled

\* C26: the step in which a chapter session exits leaves none of its
\* sources sounding, the active-source set empty and the controller
\* reference cleared, and a timer of the session that fires later changes
\* nothing but the set of pending timers.
C26_ExitCleansUp ==
    [][/\ \A c \in Sessions : CancelStep(c) =>
             /\ \A src \in st.audible' : src[1] # c
             /\ st.activeAudioSources' = {}
             /\ st.playbackController' = 0
       /\ StaleTimerFires =>
             /\ st.playbackController' = st.playbackController
             /\ st.chapterAudioState' = st.chapterAudioState
             /\ st.currentlyPlayingVerse' = st.currentlyPlayingVerse
             /\ st.activeAudioSources' = st.activeAudioSources
             /\ st.audible' = st.audible]_vars

\* the final-cleanup timer tm fires in this step
FinalTimerFires(tm) ==
    /\ tm \in st.finalTimers
    /\ tm \notin st.finalTimers'

\* C27: the final-cleanup timer of a session that was cancelled before the
\* timer fires performs no teardown: the controller, the state of the
\* player and the sources that sound are after the timer as before it, and
\* no session is cancelled by it.
C27_StaleFinalTimerDoesNothing ==
    [][\A tm \in st.finalTimers :
          FinalTimerFires(tm) /\ st.sess[tm.s].cancelled
              => /\ st.playbackController' = st.playbackController
                 /\ st.chapterAudioState' = st.chapterAudioState
                 /\ st.audible' = st.audible
                 /\ \A s \in Sessions : Uncancelled(s) => ~st.sess[s].cancelled']_vars

-----------------------------------------------------------------------------
\* The sliding window of fetches needs a chapter longer than the prefetch
\* depth: one session of a chapter of up to prefetchCount + 2 verses, whose
\* fetches succeed or fail in any order.
WindowVerses == prefetchCount + 2

InitWindow ==
    /\ st = InitialState
    /\ vs = InitialVerseState
    /\ svc = InitialService
    /\ tracker = InitialTracker
    /\ sel = InitialSelection
    /\ streamTarget \in {1, prefetchCount, prefetchCount + 1, WindowVerses}
    /\ passage = ChapterText(streamTarget)
    /\ now = 0
    /\ clicks = 1

NextWindow ==
    \/ \E o \in CtxOutcomes : PlayOnce(o)
    \/ \E s \in Sessions : ResumeResolve(s)
    \/ \E s \in Sessions, v \in 1..WindowVerses : AudioSettle(s, v, FALSE)
    \/ \E s \in Sessions, v \in 1..WindowVerses : FetchSettle(s, v, FALSE)

SpecWindow == InitWindow /\ [][NextWindow]_vars

\* C28: in a session of N verses the fetches are issued once each and in
\* verse order, so that the k-th fetch issued is that of verse k; while the
\* sequencer awaits verse i (counted from 1) the fetches issued are exactly
\* those of verses 1..min(i + 5, N): the first min(5, N) were issued before
\* the first await, and no fetch is more than 5 verses ahead of the verse
\* awaited.
C28_SlidingWindow ==
    \A s \in Sessions :
        LET sr == st.sess[s]
            N == Len(sr.verses)
        IN /\ \A k \in DOMAIN sr.audioPromises : sr.audioPromises[k] = k
           /\ sr.pc = "awaiting"
                => /\ sr.i \in 1..N
                   /\ Len(sr.audioPromises) = Min(sr.i + prefetchCount, N)
                   /\ \A v \in 1..N : sr.fetch[v] = "none" <=> v > Len(sr.audioPromises)

\* The session of the longest chapter awaits its second verse: the window
\* has slid once and the fetch of the last verse is in flight.
C28_Witness ==
    \E s \in Sessions :
        /\ Len(st.sess[s].verses) = WindowVerses
        /\ st.sess[s].pc = "awaiting"
        /\ st.sess[s].i = 2
        /\ Len(st.sess[s].audioPromises) = WindowVerses
        /\ st.sess[s].fetch[WindowVerses] = "fetching"

-----------------------------------------------------------------------------
\* A chapter on screen whose play button is clicked again and again, with
\* fetches and decodes that take any time
NextCancel ==
    \/ \E o \in {"running", "suspended"} : PlayClick(o)
    \/ \E s \in Sessions : ResumeResolve(s)
    \/ \E s \in Sessions, v \in 1..MaxVerses, ok \in BOOLEAN : FetchSettle(s, v, ok)
    \/ \E s \in Sessions, v \in 1..MaxVerses :
          \E d \in {ClipDuration(v), 0} : DecodeSettle(s, v, d, FALSE)
    \/ \E src \in st.activeAudioSources : SourceEnded(src)
    \/ \E tm \in st.hlTimers : HighlightTimerFire(tm)
    \/ \E tm \in st.finalTimers : FinalTimerFire(tm)
    \/ TickSeq

SpecCancel == InitVerse /\ [][NextCancel]_vars

\* session s was cancelled before this step, and in this step a fetch of
\* it settles or a highlight timer of it fires
CancelledSessionActs(s) ==
    /\ st.sess[s].cancelled
    /\ \/ \E v \in DOMAIN st.sess[s].fetch :
             /\ st.sess[s].fetch[v] \in {"fetching", "decoding"}
             /\ v \in DOMAIN st.sess[s].fetch' => st.sess[s].fetch[v]' # st.sess[s].fetch[v]
       \/ \E tm \in st.hlTimers : tm.s = s /\ tm \notin st.hlTimers'

-----------------------------------------------------------------------------
\* call c is the only call of handlePlayVerse made so far, its fetch or its
\* decode is pending, and the state is idle again: the speaker of its verse
\* was clicked a second time (BibleText.tsx:65-68) while it loaded
StoppedWhilePending(c) ==
    /\ vs.nCalls = 1 /\ c = 1
    /\ vs.calls[c].pc \in {"fetching", "decoding"}
    /\ vs.playingState = "idle"

\* C30: a verse session stopped by a second click while its fetch or its
\* decode is pending starts no audio afterwards and never sets playingState
\* to playing.
C30_StoppedVerseNeverPlays ==
    [][ \A c \in VerseCalls :
          StoppedWhilePending(c) =>
              /\ c \notin vs.sounding'
              /\ vs.calls[c].source' = "none"
              /\ vs.playingState' # "playing" ]_vars

-----------------------------------------------------------------------------
\* the ended event of the source of call c arrives while the source of
\* another call is the live one
StaleSourceEnds(c) == VerseSourceEnded(c) /\ vs.audioSourceRef \notin {0, c}

\* C31: at most one verse audio source sounds at any moment, and the ended
\* event of a source that is no longer the live one neither stops the live
\* source nor resets the state of the session that owns it.
C31_SingleVerseSource ==
    [][ /\ Cardinality(vs.sounding') <= 1
        /\ \A c \in VerseCalls :
              StaleSourceEnds(c) =>
                  /\ vs.audioSourceRef' = vs.audioSourceRef
                  /\ vs.audioSourceRef \in vs.sounding => vs.audioSourceRef \in vs.sounding'
                  /\ vs.playingState' = vs.playingState
                  /\ vs.playingVerseNumber' = vs.playingVerseNumber ]_vars

-----------------------------------------------------------------------------
\* a fetch of the passage of key k has issued its underlying call and has
\* not completed
PassageInFlight(k) ==
    \E f \in FetchIds :
        /\ svc.fetches[f].key = k
        /\ svc.fetches[f].pc \in {"calling", "streaming"}

\* C32: while a fetch of a passage is in flight, a fetch of the same
\* (book, chapter) that begins issues no second underlying call.
C32_NoSecondCallInFlight ==
    [][ \A c \in CachedChapters :
          PassageInFlight(<<"passage", c>>) =>
              svc.calls[<<"passage", c>>]' = svc.calls[<<"passage", c>>] ]_vars

-----------------------------------------------------------------------------
-----------------------------------------------------------------------------
\* two chapters were selected one after the other and every fetch of both
\* selections has completed, the streams without failure
BothSelectionsCompleted ==
    /\ sel.nCalls = 2
    /\ \A i \in SelectCalls :
          /\ sel.calls[i].pc = "done"
          /\ svc.fetches[<<i, "stream">>].pc \notin {"calling", "streaming"}
          /\ svc.fetches[<<i, "original">>].pc \notin {"calling"}

\* C34: when chapter A and then chapter B were selected and all their
\* fetches have completed, in any order, the passage on screen is not the
\* text of a chapter other than B, the most recently selected one.
C34_LastSelectionIsShown ==
    BothSelectionsCompleted =>
        \A c \in CachedChapters \ {sel.selectedChapter} : passage # ChapterText(c)

-----------------------------------------------------------------------------
\* Word lookups and the tooltip (part_000:56-72, 318-370).  Handlers are
\* operators on the record sel.

\* the words under the pointer, each with its verse: a word, the same word
\* in another verse with a full stop after it, another word, and a
\* punctuation mark alone
HoverTargets == {<<"a", 1>>, <<"a.", 2>>, <<"b", 1>>, <<".", 1>>}

\* part_000:343: word.replace(/[.,;:?!()"']/g, '')
cleanWord(word) ==
    IF word = "." THEN "" ELSE IF word = "a." THEN "a" ELSE word

\* part_000:318-323
cancelHideTooltip(s) == [s EXCEPT !.tip.hideTimeoutRef = FALSE]

\* clearTimeout(hoverTimeoutRef.current): a timer that has fired is not undone
clearHoverTimeout(s) ==
    LET h == s.tip.hoverTimeoutRef
    IN IF h # 0 /\ s.tip.lookups[h].pc = "timer"
       THEN [s EXCEPT !.tip.lookups[h] = [NoLookup EXCEPT !.pc = "over"]]
       ELSE s

\* part_000:335-346, 368: handleWordHover up to the start of its timer
handleWordHover(s, word, verse) ==
    IF s.apiKeyNeeded \/ s.tip.isScrolling THEN s
    ELSE LET s1 == clearHoverTimeout(cancelHideTooltip(s))
             l == s.tip.nLookups + 1
         IN IF cleanWord(word) = "" THEN s1
            ELSE [s1 EXCEPT !.tip.nLookups = l,
                            !.tip.hoverTimeoutRef = l,
                            !.tip.lookups[l] = [pc |-> "timer",
                                                word |-> cleanWord(word),
                                                verse |-> verse]]

\* part_000:346-356: the hover timer of lookup l fires
hoverTimer(s, l) ==
    [s EXCEPT !.tip.data = [set |-> TRUE,
                            word |-> s.tip.lookups[l].word,
                            verseNumber |-> s.tip.lookups[l].verse,
                            definition |-> 0,
                            isLoading |-> TRUE,
                            error |-> "null"],
              !.tip.lookups[l].pc = "pending"]

\* the definition arrives and is shown whatever the tooltip holds
lookupResolvedUnguarded(s, l) ==
    [s EXCEPT !.tip.lookups[l] = [NoLookup EXCEPT !.pc = "over"],
              !.tip.settled = "applied",
              !.tip.data.set = TRUE,
              !.tip.data.definition = l,
              !.tip.data.isLoading = FALSE]

\* part_000:358-359: getWordDefinition of lookup l resolved
lookupResolved(s, l) ==
    LET s1 == [s EXCEPT !.tip.lookups[l] = [NoLookup EXCEPT !.pc = "over"]]
    IN IF s.tip.data.set /\ s.tip.data.word = s.tip.lookups[l].word
       THEN [s1 EXCEPT !.tip.data.definition = l, !.tip.data.isLoading = FALSE,
                       !.tip.settled = "applied"]
       ELSE [s1 EXCEPT !.tip.settled = "ignored"]

\* the failure of a lookup that leaves the loading flag set
lookupRejectedKeepsLoading(s, l, err) ==
    LET s1 == [s EXCEPT !.tip.lookups[l] = [NoLookup EXCEPT !.pc = "over"],
                        !.apiError = IF err # "" THEN err ELSE @]
    IN IF s.tip.data.set /\ s.tip.data.word = s.tip.lookups[l].word
       THEN [s1 EXCEPT !.tip.data.error = s.tip.lookups[l].word,
                       !.tip.settled = "applied"]
       ELSE [s1 EXCEPT !.tip.settled = "ignored"]

\* part_000:360-367: getWordDefinition of lookup l rejected; err is the
\* message if it mentions "API", "" if it does not
lookupRejected(s, l, err) ==
    LET s1 == [s EXCEPT !.tip.lookups[l] = [NoLookup EXCEPT !.pc = "over"],
                        !.apiError = IF err # "" THEN err ELSE @]
    IN IF s.tip.data.set /\ s.tip.data.word = s.tip.lookups[l].word
       THEN [s1 EXCEPT !.tip.data.error = s.tip.lookups[l].word,
                       !.tip.data.isLoading = FALSE,
                       !.tip.settled = "applied"]
       ELSE [s1 EXCEPT !.tip.settled = "ignored"]

\* part_000:325-333
scheduleHideTooltip(s) ==
    [clearHoverTimeout(s) EXCEPT !.tip.hoverTimeoutRef = 0,
                                 !.tip.hideTimeoutRef = TRUE]

\* part_000:330-332: the hide timer fires
hideTimer(s) ==
    [s EXCEPT !.tip.data = NoTooltip, !.tip.hideTimeoutRef = FALSE, !.tip.inside = FALSE]

\* part_000:58-71: handleScroll
handleScroll(s) ==
    [clearHoverTimeout(s) EXCEPT !.tip.isScrolling = TRUE,
                                 !.tip.hoverTimeoutRef = 0,
                                 !.tip.data = NoTooltip,
                                 !.tip.inside = FALSE]

\* a step that settles no lookup
unsettled(s) == [s EXCEPT !.tip.settled = "none"]

\* the pointer enters a word of verse `verse` (BibleText.tsx:184)
WordHover(word, verse) ==
    /\ sel.tip.nLookups < MaxLookups
    /\ sel' = unsettled(handleWordHover(sel, word, verse))
    /\ UNCHANGED <<st, passage, streamTarget, now, clicks, vs, svc, tracker>>

HoverTimerFire(l) ==
    /\ sel.tip.lookups[l].pc = "timer"
    /\ sel' = unsettled(hoverTimer(sel, l))
    /\ UNCHANGED <<st, passage, streamTarget, now, clicks, vs, svc, tracker>>

LookupResolve(l) ==
    /\ sel.tip.lookups[l].pc = "pending"
    /\ sel' = lookupResolved(sel, l)
    /\ UNCHANGED <<st, passage, streamTarget, now, clicks, vs, svc, tracker>>

LookupReject(l, err) ==
    /\ sel.tip.lookups[l].pc = "pending"
    /\ sel' = lookupRejected(sel, l, err)
    /\ UNCHANGED <<st, passage, streamTarget, now, clicks, vs, svc, tracker>>

\* the pointer enters the tooltip (part_000:483)
TooltipEnter ==
    /\ sel.tip.data.set /\ ~sel.tip.inside
    /\ sel' = unsettled([cancelHideTooltip(sel) EXCEPT !.tip.inside = TRUE])
    /\ UNCHANGED <<st, passage, streamTarget, now, clicks, vs, svc, tracker>>

\* the pointer leaves the tooltip (part_000:484)
TooltipLeave ==
    /\ sel.tip.data.set /\ sel.tip.inside
    /\ sel' = unsettled([scheduleHideTooltip(sel) EXCEPT !.tip.inside = FALSE])
    /\ UNCHANGED <<st, passage, streamTarget, now, clicks, vs, svc, tracker>>

HideTimerFire ==
    /\ sel.tip.hideTimeoutRef
    /\ sel' = unsettled(hideTimer(sel))
    /\ UNCHANGED <<st, passage, streamTarget, now, clicks, vs, svc, tracker>>

\* the window is scrolled
Scroll ==
    /\ sel' = unsettled(handleScroll(sel))
    /\ UNCHANGED <<st, passage, streamTarget, now, clicks, vs, svc, tracker>>

\* part_000:69-71: 150 ms without a scroll event
ScrollTimerFire ==
    /\ sel.tip.isScrolling
    /\ sel' = unsettled([sel EXCEPT !.tip.isScrolling = FALSE])
    /\ UNCHANGED <<st, passage, streamTarget, now, clicks, vs, svc, tracker>>

NextTooltip ==
    \/ \E t \in HoverTargets : WordHover(t[1], t[2])
    \/ \E l \in Lookups : HoverTimerFire(l)
    \/ \E l \in Lookups : LookupResolve(l)
    \/ \E l \in Lookups, err \in ApiMessages : LookupReject(l, err)
    \/ TooltipEnter
    \/ TooltipLeave
    \/ HideTimerFire
    \/ Scroll
    \/ ScrollTimerFire
    \/ SelectChapter(1)

\* The tooltip, with words hovered, lookups that take any time, scrolling
\* and a chapter selection
SpecTooltip == InitSelect /\ [][NextTooltip]_vars

\* the tooltip shows the word lookup l was made for
ShowsWordOf(l) == sel.tip.data.set /\ sel.tip.data.word = sel.tip.lookups[l].word

\* C35: the result of a word lookup is applied to the tooltip only if the
\* tooltip still shows the word of the lookup: a definition is then set and
\* the loading flag cleared, a failure sets the inline error and clears the
\* loading flag; when the tooltip shows another word or nothing the result
\* leaves it unchanged.
C35_ResultOnlyForShownWord ==
    [][ \A l \in Lookups :
          /\ LookupResolve(l) =>
                sel.tip.data' =
                    IF ShowsWordOf(l)
                    THEN [sel.tip.data EXCEPT !.definition = l, !.isLoading = FALSE]
                    ELSE sel.tip.data
          /\ \A err \in ApiMessages :
                LookupReject(l, err) =>
                    IF ShowsWordOf(l)
                    THEN /\ sel.tip.data'.error = sel.tip.lookups[l].word
                         /\ ~sel.tip.data'.isLoading
                         /\ sel.tip.data'.word = sel.tip.data.word
                         /\ sel.tip.data'.definition = sel.tip.data.definition
                    ELSE sel.tip.data' = sel.tip.data ]_vars

\* the lookup of a word has just settled while the tooltip showed another
\* word, whose own lookup is pending: the tooltip still loads
C35_Witness ==
    /\ sel.tip.settled = "ignored"
    /\ sel.tip.data.set
    /\ sel.tip.data.isLoading
    /\ sel.tip.data.definition = 0
    /\ sel.tip.data.error = "null"
    /\ \E l \in Lookups :
          /\ sel.tip.lookups[l].pc = "pending"
          /\ sel.tip.lookups[l].word = sel.tip.data.word

-----------------------------------------------------------------------------
\* The lines of a passage, character by character.  A line is a sequence of
\* characters: digits, the full stop, the space, and "x" for any other.

MaxLines == 3       \* lines of a passage

DigitChars == {"1", "2", "3"}

DigitValue(ch) == IF ch = "1" THEN 1 ELSE IF ch = "2" THEN 2 ELSE 3

\* "1. x", "3.x", " 2.x" (indented), "x", " ", "", "2" and "12."
RawLines ==
    { <<"1", ".", " ", "x">>, <<"3", ".", "x">>, <<" ", "2", ".", "x">>,
      <<"x">>, <<" ">>, <<>>, <<"2">>, <<"1", "2", ".">> }

\* part_000:224: line.trim() !== ''
nonBlank(line) == \E i \in DOMAIN line : line[i] # " "

RECURSIVE leadingDigits(_, _)
\* the length of the run of digits (\d+ is greedy) that starts at position i
leadingDigits(line, i) ==
    IF i <= Len(line) /\ line[i] \in DigitChars THEN 1 + leadingDigits(line, i + 1) ELSE 0

RECURSIVE parseInt(_, _)
\* the number the first n characters of the line spell
parseInt(line, n) ==
    IF n = 0 THEN 0 ELSE 10 * parseInt(line, n - 1) + DigitValue(line[n])

\* part_000:224-226: what line.trim() !== '' and line.match(/^(\d+)\.\s*(.*)/)
\* make of a line
lineOf(line) ==
    LET n == leadingDigits(line, 1)
    IN IF ~nonBlank(line) THEN [kind |-> "blank", number |-> 0, raw |-> line]
       ELSE IF n >= 1 /\ n < Len(line) /\ line[n + 1] = "."
       THEN [kind |-> "verse", number |-> parseInt(line, n), raw |-> line]
       ELSE [kind |-> "junk", number |-> 0, raw |-> line]

\* passage.split('\n') of the passages of up to MaxLines lines; the passage
\* of one empty line is the empty string, which has no play button
RawTexts ==
    UNION {[1..n -> RawLines] : n \in 1..MaxLines} \ {<< <<>> >>}

\* A passage of any lines is on screen and play is clicked once
InitParse ==
    /\ st = InitialState
    /\ vs = InitialVerseState
    /\ svc = InitialService
    /\ tracker = InitialTracker
    /\ sel = InitialSelection
    /\ streamTarget = 0
    /\ \E text \in RawTexts : passage = [i \in DOMAIN text |-> lineOf(text[i])]
    /\ now = 0
    /\ clicks = 1

NextParse ==
    \/ \E o \in CtxOutcomes : PlayOnce(o)
    \/ \E s \in Sessions : ResumeResolve(s)
    \/ \E s \in Sessions, v \in 1..MaxLines : AudioSettle(s, v, FALSE)
    \/ \E s \in Sessions, v \in 1..MaxLines : FetchSettle(s, v, FALSE)

SpecParse == InitParse /\ [][NextParse]_vars

\* the line begins with one or more digits and a full stop right after them
Numbered(line) ==
    \E n \in 1..(Len(line) - 1) :
        /\ \A i \in 1..n : line[i] \in DigitChars
        /\ line[n + 1] = "."

\* the lines of a passage that are not blank and are numbered, in their order
NumberedLines(p) == SelectSeq(p, LAMBDA l : nonBlank(l.raw) /\ Numbered(l.raw))

\* C36: the verse list of a chapter session is exactly the subsequence, in
\* their order, of the non-blank lines of the passage that begin with a
\* number and a full stop; there is one fetch per verse of that list and
\* none for another line, every audio start is that of a verse of the list,
\* and when the loop is over every verse of the list has been awaited,
\* whatever the numbers: each one was started or had failed.
C36_VersesAreNumberedLines ==
    \A s \in Sessions :
        LET sr == st.sess[s]
            lines == NumberedLines(sr.text)
        IN sr.hasCtl =>
              /\ Len(sr.verses) = Len(lines)
              /\ \A j \in DOMAIN lines : sr.verses[j] = lines[j].number
              /\ DOMAIN sr.fetch = DOMAIN lines
              /\ \A k \in DOMAIN sr.audioPromises : sr.audioPromises[k] \in DOMAIN lines
              /\ \A k \in DOMAIN sr.starts : sr.starts[k].verse \in DOMAIN lines
              /\ sr.pc = "done" =>
                    /\ \A v \in DOMAIN lines : sr.fetch[v] \in {"ok", "null"}
                    /\ Len(sr.starts) = Cardinality({v \in DOMAIN lines : sr.fetch[v] = "ok"})

\* the passage "1. x", "x", "3.x": the session played verse 1 and verse 3
\* and its loop is over
C36_Witness ==
    \E s \in Sessions :
        /\ Len(st.sess[s].text) = 3
        /\ st.sess[s].text[2].kind = "junk"
        /\ st.sess[s].verses = <<1, 3>>
        /\ st.sess[s].pc = "done"
        /\ Len(st.sess[s].starts) = 2

-----------------------------------------------------------------------------
\* One chapter session whose promises all settle: resume() resolves or
\* rejects, every fetch and every decode succeeds or fails, every timer
\* fires and every source ends.
NextLive ==
    \/ \E o \in CtxOutcomes : PlayOnce(o)
    \/ \E s \in Sessions : ResumeResolve(s)
    \/ \E s \in Sessions : ResumeReject(s)
    \/ \E s \in Sessions, v \in 1..MaxVerses, ok \in BOOLEAN : FetchSettle(s, v, ok)
    \/ \E s \in Sessions, v \in 1..MaxVerses :
          \E d \in {ClipDuration(v), 0} : DecodeSettle(s, v, d, FALSE)
    \/ \E src \in st.activeAudioSources : SourceEnded(src)
    \/ \E tm \in st.hlTimers : HighlightTimerFire(tm)
    \/ \E tm \in st.finalTimers : FinalTimerFire(tm)
    \/ TickSeq

\* what the browser guarantees of a promise that settles and of a timer
LiveFairness ==
    /\ WF_vars(\E s \in Sessions : ResumeResolve(s) \/ ResumeReject(s))
    /\ WF_vars(\E s \in Sessions, v \in 1..MaxVerses, ok \in BOOLEAN : FetchSettle(s, v, ok))
    /\ WF_vars(\E s \in Sessions, v \in 1..MaxVerses :
                  \E d \in {ClipDuration(v), 0} : DecodeSettle(s, v, d, FALSE))
    /\ WF_vars(\E src \in st.activeAudioSources : SourceEnded(src))
    /\ WF_vars(\E tm \in st.hlTimers : HighlightTimerFire(tm))
    /\ WF_vars(\E tm \in st.finalTimers : FinalTimerFire(tm))
    /\ WF_vars(TickSeq)

SpecLive == InitVerse /\ [][NextLive]_vars /\ LiveFairness

\* C37: when resume() settles, by resolving or by rejecting, and every
\* fetch resolves or fails, a chapter session that is loading eventually
\* leaves loading.
C37_SessionEventuallyEnds ==
    (st.chapterAudioState = "loading") ~> (st.chapterAudioState # "loading")

====
